---- MODULE Spec2Model ----
(***************************************************************************)
(* The CI/CD agent of src/core/agent.py (class CICDAgent) as a state       *)
(* machine: the registry containers (pipelines, runs, run_history), the    *)
(* registry operations called from the caller's thread, and one executor   *)
(* task (_execute_run) per dispatched run, interleaved with them at the    *)
(* statement boundaries of the source.                                     *)
(***************************************************************************)
EXTENDS Integers, Sequences, FiniteSets, TLC

\* ------------------------------------------------------------------ bounds
MaxPipelines == 1
MaxRuns == 1
MaxSteps == 2
MaxRetry == 1
MaxTime == 1
LoadedPipelines == 2
LoadedRuns == 3
MaxStepRetry == 3
MaxCreated == 2
IsolateRuns == 2
MaxCommand == 4

\* Optional[str] = None of started_at / finished_at (clock values are >= 1)
None == 0

PipelineIds == 1..MaxPipelines
RunIds == (MaxPipelines + 1)..(MaxPipelines + MaxRuns)

\* the ids found in a data file written by an earlier engine process
LoadedPipelineIds == 1..LoadedPipelines
LoadedRunIds == (LoadedPipelines + 1)..(LoadedPipelines + LoadedRuns)

\* class PipelineStatus / class StepStatus
PipelineStatus == {"pending", "running", "success", "failed", "cancelled"}
StepStatus == {"pending", "running", "success", "failed", "skipped"}
Terminal == {"success", "failed", "cancelled"}
StepTerminal == {"success", "failed"}

\* retry_count and continue_on_error of a step template: create_pipeline
\* stores whatever the configuration holds, a negative retry_count included
RetryCounts == (0 - 1)..MaxRetry
StepTemplates ==
    [name : {"step"}, command : {"cmd"}, retry_count : RetryCounts, continue_on_error : BOOLEAN]
StepLists == UNION {[1..n -> StepTemplates] : n \in 0..MaxSteps}

\* what one subprocess.run attempt can do: exit 0, exit non-zero
\* (CalledProcessError), TimeoutExpired, any other exception
Outcomes == {"ok", "nonzero", "timeout", "fault"}

VARIABLES
    pipelines,    \* self.pipelines: pipeline id -> definition
    runs,         \* self.runs: the keys of the live map, in insertion order
    obj,          \* the PipelineRun objects, by run id (live or still referenced)
    run_history,  \* self.run_history: list of run dicts
    task,         \* the executor task of each run: position and locals
    n_pipelines,  \* uuid4() values issued as pipeline ids
    n_runs,       \* uuid4() values issued as run ids
    now,          \* datetime.datetime.now()
    ret,          \* the registry call that led to this state: <<operation, "id" | "bool" | "raise", value>>
    saved,        \* whether the step that led to this state called _save_data()
    call,         \* a registry call of the caller's thread that is between two statements
    file,         \* the data file: absent, the dict of the last pickle.dump, or unreadable
    disk,         \* whether writing the data file works: "ok", "failing" or "repaired"
    heap,         \* the variables dicts of the process, by identity: address -> content
    cancel_at     \* history variable: where a run was when first cancelled

vars == <<pipelines, runs, obj, run_history, task, n_pipelines, n_runs, now, ret, saved,
          call, file, disk, heap, cancel_at>>

\* ------------------------------------------------------------------ helpers
Range(s) == {s[i] : i \in DOMAIN s}
Live == Range(runs)
Remove(s, x) == SelectSeq(s, LAMBDA y : y # x)
HistoryIds == {run_history[i].id : i \in DOMAIN run_history}
Min(a, b) == IF a < b THEN a ELSE b

\* the ids of a set in the order a data file lists them
RECURSIVE Ascending(_)
Ascending(S) ==
    IF S = {} THEN <<>>
    ELSE LET m == CHOOSE x \in S : \A y \in S : x <= y
         IN <<m>> \o Ascending(S \ {m})

\* a read of the wall clock: it may have advanced since the last read
Clock == {now, Min(now + 1, MaxTime)}

\* a dict lookup d.get(key, default)
Get(d, key, default) == IF key \in DOMAIN d THEN d[key] ELSE default

\* what PipelineStep.from_dict raises on a step dict: KeyError for a missing
\* 'name' or 'command' (lines 62-63), ValueError for a 'status' that is no
\* StepStatus value (line 72), or nothing
PipelineStep_from_dict_raises(step_data) ==
    IF "name" \notin DOMAIN step_data \/ "command" \notin DOMAIN step_data THEN "KeyError"
    ELSE IF "status" \in DOMAIN step_data /\ step_data.status \notin StepStatus THEN "ValueError"
    ELSE "none"

\* PipelineStep.from_dict: retry_count and continue_on_error with their
\* defaults, the runtime state restored where the dict holds it.  attempts
\* counts the subprocess.run calls and slept the seconds of time.sleep.
PipelineStep_from_dict(step_data) ==
    [retry_count |-> Get(step_data, "retry_count", 0),
     continue_on_error |-> Get(step_data, "continue_on_error", FALSE),
     status |-> Get(step_data, "status", "pending"),
     end_time |-> Get(step_data, "end_time", ""),
     error |-> Get(step_data, "error", ""),
     attempts |-> 0,
     slept |-> 0]

\* what PipelineRun.from_config raises: the error of the first step dict that
\* PipelineStep.from_dict rejects
PipelineRun_from_config_raises(pipeline_config) ==
    LET bad == {i \in DOMAIN pipeline_config.steps :
                   PipelineStep_from_dict_raises(pipeline_config.steps[i]) # "none"}
    IN IF bad = {} THEN "none"
       ELSE PipelineStep_from_dict_raises(
                pipeline_config.steps[CHOOSE i \in bad : \A j \in bad : i <= j])

\* PipelineRun.from_config; variables is the dict of the configuration itself
\* (line 123: no copy), steps are new PipelineStep objects (line 124).  The {}
\* default is for a configuration without 'variables'; a definition has the key.
PipelineRun_from_config(pipeline_id, pipeline_config, t) ==
    [pipeline_id |-> pipeline_id,
     status |-> "pending",
     created_at |-> t,
     started_at |-> None,
     finished_at |-> None,
     variables |-> Get(pipeline_config, "variables", <<"run">>),
     steps |-> [i \in DOMAIN pipeline_config.steps |->
                   PipelineStep_from_dict(pipeline_config.steps[i])]]

\* PipelineRun.to_dict: the plain record appended to run_history; 'variables'
\* is the run's dict itself (line 153)
to_dict(id) ==
    [id |-> id,
     pipeline_id |-> obj[id].pipeline_id,
     status |-> obj[id].status,
     created_at |-> obj[id].created_at,
     started_at |-> obj[id].started_at,
     finished_at |-> obj[id].finished_at,
     variables |-> obj[id].variables,
     steps |-> obj[id].steps]

\* the dict _save_data pickles when every container is empty
NoData == [pipelines |-> <<>>, runs |-> <<>>, run_history |-> <<>>]

\* an executor task: its position and locals; data is the dict its _save_data
\* has built and not yet written
NoTask == [pc |-> "none", i |-> 0, attempt |-> 0, success |-> FALSE, handling |-> FALSE,
           data |-> NoData]
NotCancelled == [when |-> "never", pending_from |-> 0, passed |-> FALSE]
NoCall == <<"none", "none", 0>>
Idle == [op |-> "none", arg |-> 0]

\* The identity of a variables dict: the dict of the caller's configuration
\* object, or the {} that create_pipeline makes for a configuration without
\* 'variables' (line 304).  A field that holds a dict holds its address.
ConfigVariables == <<"config">>
NewVariables(pipeline_id) == <<"pipeline", pipeline_id>>

\* every dict as it is made: the caller's holds one entry, a new {} none
NewHeap ==
    [a \in {ConfigVariables} \cup {NewVariables(p) : p \in PipelineIds \cup LoadedPipelineIds}
        |-> IF a = ConfigVariables THEN "prod" ELSE ""]

\* _save_data, lines 229-242: the dict that is pickled, its 'runs' in the order
\* of self.runs
Snapshot ==
    [pipelines |-> pipelines,
     runs |-> [k \in DOMAIN runs |-> to_dict(runs[k])],
     run_history |-> run_history]

\* the data file: not there, holding a pickled dict, or holding bytes that
\* pickle.load rejects (a dump that failed after open(..., 'wb') truncated it);
\* backup is the file data_file + '.backup' beside it
NoBackup == [state |-> "absent", data |-> NoData]
Absent == [state |-> "absent", data |-> NoData, backup |-> NoBackup]
Corrupt == [state |-> "corrupt", data |-> NoData, backup |-> NoBackup]
Stored(data) == [state |-> "ok", data |-> data, backup |-> NoBackup]

\* _save_data, lines 244-252: the dict is written; when writing fails the
\* exception is logged and the file is as it was or truncated
Write(data) ==
    /\ file' \in IF disk # "failing"
                  THEN {[file EXCEPT !.state = "ok", !.data = data]}
                  ELSE {file, [file EXCEPT !.state = "corrupt", !.data = NoData]}
    /\ UNCHANGED disk

\* the save of a registry handler, which pickles the containers as the handler
\* leaves them
Persist == IF saved' THEN Write(Snapshot') ELSE UNCHANGED <<file, disk>>
At(r, where) == r \in DOMAIN task /\ task[r].pc = where
Goto(r, where) == task' = [task EXCEPT ![r].pc = where]

Init ==
    /\ pipelines = <<>>
    /\ runs = <<>>
    /\ obj = <<>>
    /\ run_history = <<>>
    /\ task = <<>>
    /\ n_pipelines = 0
    /\ n_runs = 0
    /\ now = 1
    /\ ret = NoCall
    /\ saved = FALSE
    /\ call = Idle
    /\ disk = "ok"
    /\ heap = NewHeap
    /\ file = Absent
    /\ cancel_at = <<>>

\* ------------------------------------------------------- registry operations
\* pipeline_config['name'] and pipeline_config['steps'] raise KeyError while the
\* definition is built (lines 299-308); nothing else of the configuration is read
create_pipeline(pipeline_config) ==
    /\ IF "name" \notin DOMAIN pipeline_config \/ "steps" \notin DOMAIN pipeline_config
       THEN /\ ret' = <<"create_pipeline", "raise", "KeyError">>
            /\ saved' = FALSE
            /\ UNCHANGED <<pipelines, n_pipelines, now>>
       ELSE /\ n_pipelines < MaxPipelines
            /\ \E t \in Clock :
                 LET pipeline_id == n_pipelines + 1 IN
                 /\ now' = t
                 /\ n_pipelines' = pipeline_id
                 /\ pipelines' = pipelines @@
                       (pipeline_id :> [steps |-> pipeline_config.steps,
                                        variables |-> Get(pipeline_config, "variables",
                                                          NewVariables(pipeline_id)),
                                        created_at |-> t])
                 /\ ret' = <<"create_pipeline", "id", pipeline_id>>
                 /\ saved' = TRUE
    /\ UNCHANGED <<runs, obj, run_history, task, n_runs, cancel_at>>
    /\ UNCHANGED <<call, heap>>
    /\ Persist

\* the body of create_run, shared with run_pipeline; tk is the new run's task
NewRun(op, pipeline_id, tk) ==
    \E t \in Clock :
      LET id == MaxPipelines + n_runs + 1 IN
      /\ now' = t
      /\ n_runs' = n_runs + 1
      /\ obj' = obj @@ (id :> PipelineRun_from_config(pipeline_id, pipelines[pipeline_id], t))
      /\ runs' = Append(runs, id)
      /\ task' = task @@ (id :> tk)
      /\ cancel_at' = cancel_at @@ (id :> NotCancelled)
      /\ ret' = <<op, "id", id>>
      /\ saved' = TRUE

\* create_run with the definition looked up by .get(pipeline_id, {'steps': []})
\* instead of the membership test of lines 317-318
create_run_defaulting_unknown(pipeline_id) ==
    /\ n_runs < MaxRuns
    /\ \E t \in Clock :
         LET id == MaxPipelines + n_runs + 1
             pipeline_config == Get(pipelines, pipeline_id, [steps |-> <<>>])
         IN /\ PipelineRun_from_config_raises(pipeline_config) = "none"
            /\ now' = t
            /\ n_runs' = n_runs + 1
            /\ obj' = obj @@ (id :> PipelineRun_from_config(pipeline_id, pipeline_config, t))
            /\ runs' = Append(runs, id)
            /\ task' = task @@ (id :> NoTask)
            /\ cancel_at' = cancel_at @@ (id :> NotCancelled)
            /\ ret' = <<"create_run", "id", id>>
            /\ saved' = TRUE
    /\ UNCHANGED <<pipelines, run_history, n_pipelines>>
    /\ UNCHANGED <<call, heap>>
    /\ Persist

create_run(pipeline_id) ==
    /\ IF pipeline_id \notin DOMAIN pipelines
       THEN /\ ret' = <<"create_run", "raise", "ValueError">>
            /\ saved' = FALSE
            /\ UNCHANGED <<runs, obj, task, n_runs, now, cancel_at>>
       ELSE IF PipelineRun_from_config_raises(pipelines[pipeline_id]) # "none"
            THEN /\ ret' = <<"create_run", "raise",
                             PipelineRun_from_config_raises(pipelines[pipeline_id])>>
                 /\ saved' = FALSE
                 /\ UNCHANGED <<runs, obj, task, n_runs, now, cancel_at>>
            ELSE /\ n_runs < MaxRuns
                 /\ NewRun("create_run", pipeline_id, NoTask)
    /\ UNCHANGED <<pipelines, run_history, n_pipelines>>
    /\ UNCHANGED <<call, heap>>
    /\ Persist

run_pipeline(pipeline_id) ==
    /\ IF pipeline_id \notin DOMAIN pipelines
       THEN /\ ret' = <<"run_pipeline", "raise", "ValueError">>
            /\ saved' = FALSE
            /\ UNCHANGED <<runs, obj, task, n_runs, now, cancel_at>>
       ELSE IF PipelineRun_from_config_raises(pipelines[pipeline_id]) # "none"
            THEN /\ ret' = <<"run_pipeline", "raise",
                             PipelineRun_from_config_raises(pipelines[pipeline_id])>>
                 /\ saved' = FALSE
                 /\ UNCHANGED <<runs, obj, task, n_runs, now, cancel_at>>
            ELSE /\ n_runs < MaxRuns
                 /\ NewRun("run_pipeline", pipeline_id, [NoTask EXCEPT !.pc = "dispatched"])
    /\ UNCHANGED <<pipelines, run_history, n_pipelines>>
    /\ UNCHANGED <<call, heap>>
    /\ Persist

\* the history variable: where the run and its executor were when a cancel found
\* the run running (at most once per run), or that a cancel found it otherwise
FirstPending(r) ==
    LET pend == {k \in DOMAIN obj[r].steps : obj[r].steps[k].status = "pending"}
    IN IF pend = {} THEN Len(obj[r].steps) + 1
       ELSE CHOOSE k \in pend : \A j \in pend : k <= j

NoteCancel(ids) ==
    cancel_at' = [r \in DOMAIN cancel_at |->
                    IF r \notin ids THEN cancel_at[r]
                    ELSE IF obj[r].status = "running"
                         THEN [when |-> "running", pending_from |-> FirstPending(r),
                               passed |-> task[r].pc = "step"]
                         ELSE IF cancel_at[r].when = "never"
                              THEN [NotCancelled EXCEPT !.when = "not_running"]
                              ELSE cancel_at[r]]

\* cancel_run with the lookup made over every run object the engine still holds
\* instead of over the live map
cancel_run_any_known_run(run_id) ==
    /\ IF run_id \in DOMAIN obj
       THEN /\ obj' = [obj EXCEPT ![run_id].status = "cancelled"]
            /\ NoteCancel({run_id} \cap Live)
            /\ ret' = <<"cancel_run", "bool", TRUE>>
            /\ saved' = TRUE
       ELSE /\ ret' = <<"cancel_run", "bool", FALSE>>
            /\ saved' = FALSE
            /\ UNCHANGED <<obj, cancel_at>>
    /\ UNCHANGED <<pipelines, runs, run_history, task, n_pipelines, n_runs, now>>
    /\ UNCHANGED <<call, heap>>
    /\ Persist

cancel_run(run_id) ==
    /\ IF run_id \in Live
       THEN /\ obj' = [obj EXCEPT ![run_id].status = "cancelled"]
            /\ NoteCancel({run_id})
            /\ ret' = <<"cancel_run", "bool", TRUE>>
            /\ saved' = TRUE
       ELSE /\ ret' = <<"cancel_run", "bool", FALSE>>
            /\ saved' = FALSE
            /\ UNCHANGED <<obj, cancel_at>>
    /\ UNCHANGED <<pipelines, runs, run_history, task, n_pipelines, n_runs, now>>
    /\ UNCHANGED <<call, heap>>
    /\ Persist

\* cancel_pipeline without the pipeline_id test of line 463
cancel_pipeline_every_live_run(pipeline_id) ==
    LET hit == Live IN
    /\ obj' = [r \in DOMAIN obj |->
                 IF r \in hit THEN [obj[r] EXCEPT !.status = "cancelled"] ELSE obj[r]]
    /\ NoteCancel(hit)
    /\ ret' = <<"cancel_pipeline", "bool", hit # {}>>
    /\ saved' = (hit # {})
    /\ UNCHANGED <<pipelines, runs, run_history, task, n_pipelines, n_runs, now>>
    /\ UNCHANGED <<call, heap>>
    /\ Persist

cancel_pipeline(pipeline_id) ==
    LET hit == {r \in Live : obj[r].pipeline_id = pipeline_id} IN
    /\ obj' = [r \in DOMAIN obj |->
                 IF r \in hit THEN [obj[r] EXCEPT !.status = "cancelled"] ELSE obj[r]]
    /\ NoteCancel(hit)
    /\ ret' = <<"cancel_pipeline", "bool", hit # {}>>
    /\ saved' = (hit # {})
    /\ UNCHANGED <<pipelines, runs, run_history, task, n_pipelines, n_runs, now>>
    /\ UNCHANGED <<call, heap>>
    /\ Persist

\* del self.run_history[i] for the first i whose record has this id
DelFirst(h, id) ==
    LET i == CHOOSE k \in DOMAIN h : h[k].id = id /\ \A j \in 1..(k - 1) : h[j].id # id
    IN SubSeq(h, 1, i - 1) \o SubSeq(h, i + 1, Len(h))

delete_run(run_id) ==
    /\ IF run_id \in Live
       THEN IF obj[run_id].status = "running"
            THEN /\ ret' = <<"delete_run", "bool", FALSE>>
                 /\ saved' = FALSE
                 /\ UNCHANGED <<runs, run_history>>
            ELSE /\ runs' = Remove(runs, run_id)
                 /\ ret' = <<"delete_run", "bool", TRUE>>
                 /\ saved' = TRUE
                 /\ UNCHANGED run_history
       ELSE IF run_id \in HistoryIds
            THEN /\ run_history' = DelFirst(run_history, run_id)
                 /\ ret' = <<"delete_run", "bool", TRUE>>
                 /\ saved' = TRUE
                 /\ UNCHANGED runs
            ELSE /\ ret' = <<"delete_run", "bool", FALSE>>
                 /\ saved' = FALSE
                 /\ UNCHANGED <<runs, run_history>>
    /\ UNCHANGED <<pipelines, obj, task, n_pipelines, n_runs, now, cancel_at>>
    /\ UNCHANGED <<call, heap>>
    /\ Persist

\* delete_pipeline without the test for running runs of lines 650-655
delete_pipeline_ignoring_active_runs(pipeline_id) ==
    /\ IF pipeline_id \in DOMAIN pipelines
       THEN /\ pipelines' = [p \in DOMAIN pipelines \ {pipeline_id} |-> pipelines[p]]
            /\ ret' = <<"delete_pipeline", "bool", TRUE>>
            /\ saved' = TRUE
       ELSE /\ ret' = <<"delete_pipeline", "bool", FALSE>>
            /\ saved' = FALSE
            /\ UNCHANGED pipelines
    /\ UNCHANGED <<runs, obj, run_history, task, n_pipelines, n_runs, now, cancel_at>>
    /\ UNCHANGED <<call, heap>>
    /\ Persist

delete_pipeline(pipeline_id) ==
    LET active_runs == {r \in Live : obj[r].pipeline_id = pipeline_id
                                      /\ obj[r].status = "running"} IN
    /\ IF active_runs # {}
       THEN /\ ret' = <<"delete_pipeline", "bool", FALSE>>
            /\ saved' = FALSE
            /\ UNCHANGED pipelines
       ELSE IF pipeline_id \in DOMAIN pipelines
            THEN /\ pipelines' = [p \in DOMAIN pipelines \ {pipeline_id} |-> pipelines[p]]
                 /\ ret' = <<"delete_pipeline", "bool", TRUE>>
                 /\ saved' = TRUE
            ELSE /\ ret' = <<"delete_pipeline", "bool", FALSE>>
                 /\ saved' = FALSE
                 /\ UNCHANGED pipelines
    /\ UNCHANGED <<runs, obj, run_history, task, n_pipelines, n_runs, now, cancel_at>>
    /\ UNCHANGED <<call, heap>>
    /\ Persist

\* ------------------------------------------------ the executor task of a run
\* _execute_run, line 343: if run_id not in self.runs: return False
execute_run_lookup(r) ==
    /\ At(r, "dispatched")
    /\ IF r \in Live
       THEN Goto(r, "get")
       ELSE task' = [task EXCEPT ![r].pc = "returned", ![r].success = FALSE]
    /\ UNCHANGED <<pipelines, runs, obj, run_history, n_pipelines, n_runs, now, cancel_at>>
    /\ ret' = NoCall
    /\ saved' = FALSE
    /\ UNCHANGED <<call, heap>>
    /\ Persist

\* line 347: run = self.runs[run_id], outside the try: a KeyError ends the task
execute_run_get(r) ==
    /\ At(r, "get")
    /\ IF r \in Live THEN Goto(r, "begin") ELSE Goto(r, "raised")
    /\ UNCHANGED <<pipelines, runs, obj, run_history, n_pipelines, n_runs, now, cancel_at>>
    /\ ret' = NoCall
    /\ saved' = FALSE
    /\ UNCHANGED <<call, heap>>
    /\ Persist

\* lines 351-354: status RUNNING whatever it was, started_at
execute_run_begin(r) ==
    /\ At(r, "begin")
    /\ \E t \in Clock :
         /\ now' = t
         /\ obj' = [obj EXCEPT ![r].status = "running", ![r].started_at = t]
    /\ task' = [task EXCEPT ![r].pc = "loop", ![r].i = 1]
    /\ UNCHANGED <<pipelines, runs, run_history, n_pipelines, n_runs, cancel_at>>
    /\ ret' = NoCall
    /\ saved' = FALSE
    /\ UNCHANGED <<call, heap>>
    /\ Persist

\* the head of the for loop without the cancellation check of lines 357-358
execute_run_loop_no_cancel_check(r) ==
    /\ At(r, "loop")
    /\ IF task[r].i > Len(obj[r].steps)
       THEN /\ obj' = [obj EXCEPT ![r].status = "success"]
            /\ Goto(r, "finish")
       ELSE /\ Goto(r, "step")
            /\ UNCHANGED obj
    /\ UNCHANGED <<pipelines, runs, run_history, n_pipelines, n_runs, now, cancel_at>>
    /\ ret' = NoCall
    /\ saved' = FALSE
    /\ UNCHANGED <<call, heap>>
    /\ Persist

\* lines 356-358 and 365-366: the head of the for loop, its cancellation check
\* and its else clause
execute_run_loop(r) ==
    /\ At(r, "loop")
    /\ IF task[r].i > Len(obj[r].steps)
       THEN /\ obj' = [obj EXCEPT ![r].status = "success"]
            /\ Goto(r, "finish")
       ELSE /\ IF obj[r].status = "cancelled" THEN Goto(r, "finish") ELSE Goto(r, "step")
            /\ UNCHANGED obj
    /\ UNCHANGED <<pipelines, runs, run_history, n_pipelines, n_runs, now, cancel_at>>
    /\ ret' = NoCall
    /\ saved' = FALSE
    /\ UNCHANGED <<call, heap>>
    /\ Persist

\* _execute_step, lines 396-408: status RUNNING; range(retry_count + 1) is empty
\* for a negative retry_count, and the function then falls off its end (None)
execute_step_begin(r) ==
    /\ At(r, "step")
    /\ obj' = [obj EXCEPT ![r].steps[task[r].i].status = "running"]
    /\ IF obj[r].steps[task[r].i].retry_count + 1 > 0
       THEN task' = [task EXCEPT ![r].pc = "attempt", ![r].attempt = 0]
       ELSE task' = [task EXCEPT ![r].pc = "after_step", ![r].success = FALSE]
    /\ UNCHANGED <<pipelines, runs, run_history, n_pipelines, n_runs, now, cancel_at>>
    /\ ret' = NoCall
    /\ saved' = FALSE
    /\ UNCHANGED <<call, heap>>
    /\ Persist

\* the attempt with the retry test of line 427 written attempt <= retry_count
execute_step_attempt_retrying_once_more(r, out) ==
    /\ At(r, "attempt")
    /\ LET i == task[r].i
           step == obj[r].steps[i]
           ran == [step EXCEPT !.attempts = step.attempts + 1]
       IN CASE out = "ok" ->
                 /\ obj' = [obj EXCEPT ![r].steps[i] =
                                [ran EXCEPT !.status = "success", !.end_time = "iso"]]
                 /\ task' = [task EXCEPT ![r].pc = "after_step", ![r].success = TRUE,
                                          ![r].attempt = 0]
            [] out = "nonzero" /\ task[r].attempt <= step.retry_count ->
                 /\ obj' = [obj EXCEPT ![r].steps[i] =
                                [ran EXCEPT !.error = "stderr",
                                            !.slept = ran.slept + 2 ^ task[r].attempt]]
                 /\ task' = [task EXCEPT ![r].attempt = task[r].attempt + 1]
            [] OTHER ->
                 /\ obj' = [obj EXCEPT ![r].steps[i] =
                                [ran EXCEPT !.status = "failed", !.end_time = "iso",
                                            !.error = CASE out = "nonzero" -> "stderr"
                                                        [] out = "timeout" -> "timeout"
                                                        [] OTHER -> "exception"]]
                 /\ task' = [task EXCEPT ![r].pc = "after_step", ![r].success = FALSE,
                                          ![r].attempt = 0]
    /\ UNCHANGED <<pipelines, runs, run_history, n_pipelines, n_runs, now, cancel_at>>
    /\ ret' = NoCall
    /\ saved' = FALSE
    /\ UNCHANGED <<call, heap>>
    /\ Persist

\* the attempt with TimeoutExpired handled like CalledProcessError (retried)
execute_step_attempt_retrying_timeouts(r, out) ==
    /\ At(r, "attempt")
    /\ LET i == task[r].i
           step == obj[r].steps[i]
           ran == [step EXCEPT !.attempts = step.attempts + 1]
       IN CASE out = "ok" ->
                 /\ obj' = [obj EXCEPT ![r].steps[i] =
                                [ran EXCEPT !.status = "success", !.end_time = "iso"]]
                 /\ task' = [task EXCEPT ![r].pc = "after_step", ![r].success = TRUE,
                                          ![r].attempt = 0]
            [] out \in {"nonzero", "timeout"} /\ task[r].attempt < step.retry_count ->
                 /\ obj' = [obj EXCEPT ![r].steps[i] =
                                [ran EXCEPT !.error = IF out = "nonzero" THEN "stderr"
                                                      ELSE "timeout",
                                            !.slept = ran.slept + 2 ^ task[r].attempt]]
                 /\ task' = [task EXCEPT ![r].attempt = task[r].attempt + 1]
            [] OTHER ->
                 /\ obj' = [obj EXCEPT ![r].steps[i] =
                                [ran EXCEPT !.status = "failed", !.end_time = "iso",
                                            !.error = CASE out = "nonzero" -> "stderr"
                                                        [] out = "timeout" -> "timeout"
                                                        [] OTHER -> "exception"]]
                 /\ task' = [task EXCEPT ![r].pc = "after_step", ![r].success = FALSE,
                                          ![r].attempt = 0]
    /\ UNCHANGED <<pipelines, runs, run_history, n_pipelines, n_runs, now, cancel_at>>
    /\ ret' = NoCall
    /\ saved' = FALSE
    /\ UNCHANGED <<call, heap>>
    /\ Persist

\* lines 409-448: one subprocess.run attempt and what its outcome leads to
execute_step_attempt(r, out) ==
    /\ At(r, "attempt")
    /\ LET i == task[r].i
           step == obj[r].steps[i]
           ran == [step EXCEPT !.attempts = step.attempts + 1]
       IN CASE out = "ok" ->
                 /\ obj' = [obj EXCEPT ![r].steps[i] =
                                [ran EXCEPT !.status = "success", !.end_time = "iso"]]
                 /\ task' = [task EXCEPT ![r].pc = "after_step", ![r].success = TRUE,
                                          ![r].attempt = 0]
            [] out = "nonzero" /\ task[r].attempt < step.retry_count ->
                 /\ obj' = [obj EXCEPT ![r].steps[i] =
                                [ran EXCEPT !.error = "stderr",
                                            !.slept = ran.slept + 2 ^ task[r].attempt]]
                 /\ task' = [task EXCEPT ![r].attempt = task[r].attempt + 1]
            [] OTHER ->
                 /\ obj' = [obj EXCEPT ![r].steps[i] =
                                [ran EXCEPT !.status = "failed", !.end_time = "iso",
                                            !.error = CASE out = "nonzero" -> "stderr"
                                                        [] out = "timeout" -> "timeout"
                                                        [] OTHER -> "exception"]]
                 /\ task' = [task EXCEPT ![r].pc = "after_step", ![r].success = FALSE,
                                          ![r].attempt = 0]
    /\ UNCHANGED <<pipelines, runs, run_history, n_pipelines, n_runs, now, cancel_at>>
    /\ ret' = NoCall
    /\ saved' = FALSE
    /\ UNCHANGED <<call, heap>>
    /\ Persist

\* line 362 without its continue_on_error test: any failing step ends the run
execute_run_after_step_ignoring_continue_on_error(r) ==
    /\ At(r, "after_step")
    /\ IF ~task[r].success
       THEN /\ obj' = [obj EXCEPT ![r].status = "failed"]
            /\ task' = [task EXCEPT ![r].pc = "finish", ![r].success = FALSE]
       ELSE /\ task' = [task EXCEPT ![r].pc = "loop", ![r].i = task[r].i + 1,
                                     ![r].success = FALSE]
            /\ UNCHANGED obj
    /\ UNCHANGED <<pipelines, runs, run_history, n_pipelines, n_runs, now, cancel_at>>
    /\ ret' = NoCall
    /\ saved' = FALSE
    /\ UNCHANGED <<call, heap>>
    /\ Persist

\* lines 362-364: if not success and not step.continue_on_error: FAILED, break
execute_run_after_step(r) ==
    /\ At(r, "after_step")
    /\ IF ~task[r].success /\ ~obj[r].steps[task[r].i].continue_on_error
       THEN /\ obj' = [obj EXCEPT ![r].status = "failed"]
            /\ task' = [task EXCEPT ![r].pc = "finish", ![r].success = FALSE]
       ELSE /\ task' = [task EXCEPT ![r].pc = "loop", ![r].i = task[r].i + 1,
                                     ![r].success = FALSE]
            /\ UNCHANGED obj
    /\ UNCHANGED <<pipelines, runs, run_history, n_pipelines, n_runs, now, cancel_at>>
    /\ ret' = NoCall
    /\ saved' = FALSE
    /\ UNCHANGED <<call, heap>>
    /\ Persist

\* lines 368-370 without the assignment of line 369
execute_run_finish_without_finished_at(r) ==
    /\ At(r, "finish")
    /\ \E t \in Clock : now' = t
    /\ Goto(r, "move")
    /\ UNCHANGED <<pipelines, runs, obj, run_history, n_pipelines, n_runs, cancel_at>>
    /\ ret' = NoCall
    /\ saved' = FALSE
    /\ UNCHANGED <<call, heap>>
    /\ Persist

\* lines 368-370: finished_at
execute_run_finish(r) ==
    /\ At(r, "finish")
    /\ \E t \in Clock :
         /\ now' = t
         /\ obj' = [obj EXCEPT ![r].finished_at = t]
    /\ Goto(r, "move")
    /\ UNCHANGED <<pipelines, runs, run_history, n_pipelines, n_runs, cancel_at>>
    /\ ret' = NoCall
    /\ saved' = FALSE
    /\ UNCHANGED <<call, heap>>
    /\ Persist

\* _move_run_to_history, lines 387-389: self.run_history.append(run.to_dict())
move_run_to_history_append(r) ==
    /\ At(r, "move")
    /\ run_history' = Append(run_history, to_dict(r))
    /\ Goto(r, "move_check")
    /\ UNCHANGED <<pipelines, runs, obj, n_pipelines, n_runs, now, cancel_at>>
    /\ ret' = NoCall
    /\ saved' = FALSE
    /\ UNCHANGED <<call, heap>>
    /\ Persist

\* line 391: if run.id in self.runs
move_run_to_history_check(r) ==
    /\ At(r, "move_check")
    /\ IF r \in Live THEN Goto(r, "move_del") ELSE Goto(r, "save")
    /\ UNCHANGED <<pipelines, runs, obj, run_history, n_pipelines, n_runs, now, cancel_at>>
    /\ ret' = NoCall
    /\ saved' = FALSE
    /\ UNCHANGED <<call, heap>>
    /\ Persist

\* line 392 written self.runs.clear()
move_run_to_history_del_clearing_live(r) ==
    /\ At(r, "move_del")
    /\ runs' = <<>>
    /\ Goto(r, "save")
    /\ UNCHANGED <<pipelines, obj, run_history, n_pipelines, n_runs, now, cancel_at>>
    /\ ret' = NoCall
    /\ saved' = FALSE
    /\ UNCHANGED <<call, heap>>
    /\ Persist

\* line 392: del self.runs[run.id]; a KeyError if the key went away since the
\* check, caught at line 377 unless the handler itself is running
move_run_to_history_del(r) ==
    /\ At(r, "move_del")
    /\ IF r \in Live
       THEN /\ runs' = Remove(runs, r)
            /\ Goto(r, "save")
       ELSE /\ IF task[r].handling THEN Goto(r, "raised") ELSE Goto(r, "except")
            /\ UNCHANGED runs
    /\ UNCHANGED <<pipelines, obj, run_history, n_pipelines, n_runs, now, cancel_at>>
    /\ ret' = NoCall
    /\ saved' = FALSE
    /\ UNCHANGED <<call, heap>>
    /\ Persist

\* the handler without line 379: the status is left as the fault found it
execute_run_except_keeping_status(r) ==
    /\ At(r, "except")
    /\ \E t \in Clock :
         /\ now' = t
         /\ obj' = [obj EXCEPT ![r].finished_at = t]
    /\ task' = [task EXCEPT ![r].pc = "move", ![r].handling = TRUE]
    /\ UNCHANGED <<pipelines, runs, run_history, n_pipelines, n_runs, cancel_at>>
    /\ ret' = NoCall
    /\ saved' = FALSE
    /\ UNCHANGED <<call, heap>>
    /\ Persist

\* lines 377-380: except Exception: status FAILED, finished_at, then the move
execute_run_except(r) ==
    /\ At(r, "except")
    /\ \E t \in Clock :
         /\ now' = t
         /\ obj' = [obj EXCEPT ![r].status = "failed", ![r].finished_at = t]
    /\ task' = [task EXCEPT ![r].pc = "move", ![r].handling = TRUE]
    /\ UNCHANGED <<pipelines, runs, run_history, n_pipelines, n_runs, cancel_at>>
    /\ ret' = NoCall
    /\ saved' = FALSE
    /\ UNCHANGED <<call, heap>>
    /\ Persist

\* the return of line 383 written return True
execute_run_return_true_unless_handled(r) ==
    /\ At(r, "save")
    /\ task' = [task EXCEPT ![r].pc = "returned", ![r].success = ~task[r].handling]
    /\ UNCHANGED <<pipelines, runs, obj, run_history, n_pipelines, n_runs, now, cancel_at>>
    /\ ret' = NoCall
    /\ saved' = TRUE
    /\ UNCHANGED <<call, heap>>
    /\ Persist

\* lines 373-375 and 382-383: save, then return run.status == SUCCESS, or False
\* from the handler
execute_run_return(r) ==
    /\ At(r, "save")
    /\ task' = [task EXCEPT ![r].pc = "returned",
                             ![r].success = ~task[r].handling /\ obj[r].status = "success"]
    /\ UNCHANGED <<pipelines, runs, obj, run_history, n_pipelines, n_runs, now, cancel_at>>
    /\ ret' = NoCall
    /\ saved' = TRUE
    /\ UNCHANGED <<call, heap>>
    /\ Persist

\* The same save and return taken in two steps, so that a save of another
\* thread can fall between them.  Lines 373 and 381 with _save_data lines
\* 229-242: the executor copies self.pipelines and self.runs into the dict to
\* pickle; 'run_history' is the list itself (line 241), not a copy.
execute_run_save(r) ==
    /\ At(r, "save")
    /\ task' = [task EXCEPT ![r].pc = "write", ![r].data = Snapshot]
    /\ UNCHANGED <<pipelines, runs, obj, run_history, n_pipelines, n_runs, now, cancel_at>>
    /\ ret' = NoCall
    /\ saved' = FALSE
    /\ UNCHANGED <<call, heap>>
    /\ Persist

\* _save_data lines 244-252, then lines 375 and 382-383: the dict built before
\* is pickled, its 'run_history' as the list is now; then return
\* run.status == SUCCESS, or False from the handler
execute_run_write(r) ==
    /\ At(r, "write")
    /\ task' = [task EXCEPT ![r].pc = "returned",
                             ![r].success = ~task[r].handling /\ obj[r].status = "success",
                             ![r].data = NoData]
    /\ UNCHANGED <<pipelines, runs, obj, run_history, n_pipelines, n_runs, now, cancel_at>>
    /\ ret' = NoCall
    /\ saved' = TRUE
    /\ UNCHANGED <<call, heap>>
    /\ Write([task[r].data EXCEPT !.run_history = run_history])

\* run_pipeline(pipeline_id, background=False), lines 337-339, once the
\* _execute_run it called inline has ended: the run id if it returned True,
\* None if it returned False, and the KeyError of line 347 if it raised
run_pipeline_foreground(r) ==
    IF task[r].pc = "raised" THEN <<"run_pipeline", "raise", "KeyError">>
    ELSE IF task[r].success THEN <<"run_pipeline", "id", r>>
    ELSE <<"run_pipeline", "none", None>>

\* ------------------------------------------------------------ the queries
\* sorted(seq, key=created_at, reverse=True): descending and stable, records
\* with equal keys keep their order
RECURSIVE sorted_reverse(_)
sorted_reverse(seq) ==
    IF seq = <<>> THEN <<>>
    ELSE LET m == CHOOSE i \in DOMAIN seq :
                     \A j \in DOMAIN seq :
                        \/ seq[j].created_at < seq[i].created_at
                        \/ seq[j].created_at = seq[i].created_at /\ i <= j
         IN <<seq[m]>> \o sorted_reverse(SubSeq(seq, 1, m - 1) \o SubSeq(seq, m + 1, Len(seq)))

\* the loop of lines 480-483 without the created_at comparison of line 482:
\* every live run of the pipeline replaces the one found before
RECURSIVE latest_run_from_ignoring_created_at(_, _, _)
latest_run_from_ignoring_created_at(pipeline_id, k, latest_run) ==
    IF k > Len(runs) THEN latest_run
    ELSE latest_run_from_ignoring_created_at(pipeline_id, k + 1,
            IF obj[runs[k]].pipeline_id = pipeline_id THEN runs[k] ELSE latest_run)

\* lines 479-483: the loop over self.runs.values() from position k on, with
\* latest_run as found so far (None or a run id)
RECURSIVE latest_run_from(_, _, _)
latest_run_from(pipeline_id, k, latest_run) ==
    IF k > Len(runs) THEN latest_run
    ELSE latest_run_from(pipeline_id, k + 1,
            IF /\ obj[runs[k]].pipeline_id = pipeline_id
               /\ \/ latest_run = None
                  \/ obj[runs[k]].created_at > obj[latest_run].created_at
            THEN runs[k] ELSE latest_run)

\* lines 487-488 and 547-548: the history records of the pipeline, in the order
\* of sorted(self.run_history, key=created_at, reverse=True)
history_of(pipeline_id) ==
    SelectSeq(sorted_reverse(run_history), LAMBDA run : run.pipeline_id = pipeline_id)

\* get_pipeline_status: the 'status' and 'steps' of the dict it returns, or
\* None for an unknown pipeline id
get_pipeline_status_result(pipeline_id) ==
    IF pipeline_id \notin DOMAIN pipelines THEN <<"none", None>>
    ELSE LET latest_run == latest_run_from(pipeline_id, 1, None)
         IN IF latest_run = None
            THEN IF history_of(pipeline_id) # <<>>
                 THEN <<"dict", [status |-> history_of(pipeline_id)[1].status,
                                 steps |-> history_of(pipeline_id)[1].steps]>>
                 ELSE <<"dict", [status |-> "never_run", steps |-> <<>>]>>
            ELSE <<"dict", [status |-> obj[latest_run].status,
                            steps |-> obj[latest_run].steps]>>

\* lines 535-544: the loop over self.runs.values() from position k on, with
\* latest_run_status and active_runs as computed so far
RECURSIVE live_summary_from(_, _, _)
live_summary_from(pipeline_id, k, acc) ==
    IF k > Len(runs) THEN acc
    ELSE live_summary_from(pipeline_id, k + 1,
            IF obj[runs[k]].pipeline_id = pipeline_id
            THEN [latest_run_status |-> obj[runs[k]].status,
                  active_runs |-> acc.active_runs + 1]
            ELSE acc)

\* lines 534-562: the entry list_pipelines builds for one definition
list_pipelines_entry(pipeline_id) ==
    LET live == live_summary_from(pipeline_id, 1,
                    [latest_run_status |-> "never_run", active_runs |-> 0])
    IN [id |-> pipeline_id,
        status |-> IF live.active_runs = 0 /\ history_of(pipeline_id) # <<>>
                   THEN history_of(pipeline_id)[1].status
                   ELSE live.latest_run_status,
        created_at |-> pipelines[pipeline_id].created_at,
        active_runs |-> live.active_runs,
        total_runs |-> Len(SelectSeq(run_history, LAMBDA run : run.pipeline_id = pipeline_id))
                       + live.active_runs]

\* list_pipelines without the sort of line 564
list_pipelines_result_unsorted ==
    LET ids == Ascending(DOMAIN pipelines)
    IN [k \in DOMAIN ids |-> list_pipelines_entry(ids[k])]

\* list_pipelines: one entry per definition, sorted by created_at descending
list_pipelines_result ==
    LET ids == Ascending(DOMAIN pipelines)
    IN sorted_reverse([k \in DOMAIN ids |-> list_pipelines_entry(ids[k])])

\* the two queries as registry calls: they change nothing and return
get_pipeline_status(pipeline_id) ==
    /\ ret' = <<"get_pipeline_status", get_pipeline_status_result(pipeline_id)[1],
                get_pipeline_status_result(pipeline_id)[2]>>
    /\ saved' = FALSE
    /\ UNCHANGED <<pipelines, runs, obj, run_history, task, n_pipelines, n_runs, now,
                   cancel_at>>
    /\ UNCHANGED <<call, heap>>
    /\ Persist

list_pipelines ==
    /\ ret' = <<"list_pipelines", "list", list_pipelines_result>>
    /\ saved' = FALSE
    /\ UNCHANGED <<pipelines, runs, obj, run_history, task, n_pipelines, n_runs, now,
                   cancel_at>>
    /\ UNCHANGED <<call, heap>>
    /\ Persist

\* to_summary_dict of a live run, and the summary lines 576-585 build from a
\* history record
to_summary_dict(run) ==
    [id |-> run.id, pipeline_id |-> run.pipeline_id, status |-> run.status,
     created_at |-> run.created_at, started_at |-> run.started_at,
     finished_at |-> run.finished_at]

\* list_runs: the live runs in the order of self.runs, then the history
\* records, each kept if pipeline_id is None or its own; sorted by created_at
\* descending
list_runs_result(pipeline_id) ==
    LET all_runs == [k \in DOMAIN runs |-> to_summary_dict(to_dict(runs[k]))]
                    \o [i \in DOMAIN run_history |-> to_summary_dict(run_history[i])]
    IN sorted_reverse(SelectSeq(all_runs,
           LAMBDA run : pipeline_id = None \/ run.pipeline_id = pipeline_id))

list_runs(pipeline_id) ==
    /\ ret' = <<"list_runs", "list", list_runs_result(pipeline_id)>>
    /\ saved' = FALSE
    /\ UNCHANGED <<pipelines, runs, obj, run_history, task, n_pipelines, n_runs, now,
                   cancel_at>>
    /\ UNCHANGED <<call, heap>>
    /\ Persist

\* get_run_status up to the test of line 592: a live id leads to line 593;
\* otherwise lines 607-621 search the history and return
get_run_status_check(run_id) ==
    /\ call = Idle
    /\ IF run_id \in Live
       THEN /\ call' = [op |-> "get_run_status", arg |-> run_id]
            /\ ret' = NoCall
       ELSE /\ call' = Idle
            /\ IF run_id \in HistoryIds
               THEN LET i == CHOOSE k \in DOMAIN run_history :
                                 /\ run_history[k].id = run_id
                                 /\ \A j \in 1..(k - 1) : run_history[j].id # run_id
                    IN ret' = <<"get_run_status", "dict", run_history[i]>>
               ELSE ret' = <<"get_run_status", "none", None>>
    /\ saved' = FALSE
    /\ UNCHANGED <<pipelines, runs, obj, run_history, task, n_pipelines, n_runs, now,
                   heap, cancel_at>>
    /\ Persist

\* lines 593-604: run = self.runs[run_id], a KeyError if the key has gone
\* since line 592, then the detail dict
get_run_status_detail ==
    /\ call.op = "get_run_status"
    /\ IF call.arg \in Live
       THEN ret' = <<"get_run_status", "dict", to_dict(call.arg)>>
       ELSE ret' = <<"get_run_status", "raise", "KeyError">>
    /\ call' = Idle
    /\ saved' = FALSE
    /\ UNCHANGED <<pipelines, runs, obj, run_history, task, n_pipelines, n_runs, now,
                   heap, cancel_at>>
    /\ Persist

\* ------------------------------------------------------------ specifications
\* The registry from its empty state: the caller's registry calls interleaved
\* with the executor tasks of the runs they dispatch.
Next ==
    \/ \E steps \in StepLists : create_pipeline([name |-> "pipeline", steps |-> steps])
    \/ \E p \in PipelineIds : create_run(p)
    \/ \E p \in PipelineIds : run_pipeline(p)
    \/ \E r \in RunIds : cancel_run(r)
    \/ \E p \in PipelineIds : cancel_pipeline(p)
    \/ \E r \in RunIds : delete_run(r)
    \/ \E p \in PipelineIds : delete_pipeline(p)
    \/ \E r \in RunIds : execute_run_lookup(r)
    \/ \E r \in RunIds : execute_run_get(r)
    \/ \E r \in RunIds : execute_run_begin(r)
    \/ \E r \in RunIds : execute_run_loop(r)
    \/ \E r \in RunIds : execute_step_begin(r)
    \/ \E r \in RunIds, out \in Outcomes : execute_step_attempt(r, out)
    \/ \E r \in RunIds : execute_run_after_step(r)
    \/ \E r \in RunIds : execute_run_finish(r)
    \/ \E r \in RunIds : move_run_to_history_append(r)
    \/ \E r \in RunIds : move_run_to_history_check(r)
    \/ \E r \in RunIds : move_run_to_history_del(r)
    \/ \E r \in RunIds : execute_run_except(r)
    \/ \E r \in RunIds : execute_run_return(r)

Spec == Init /\ [][Next]_vars

\* An engine constructed over an existing data file: __init__ calls _load_data,
\* which fills the three containers from the file; no executor task exists for
\* a loaded run.  The caller then issues registry calls.
\* the one step of a stored run, by the status of the run
StoredSteps(status) ==
    <<[retry_count |-> 0, continue_on_error |-> FALSE,
       status |-> IF status = "pending" THEN "pending" ELSE "success",
       end_time |-> IF status = "pending" THEN "" ELSE "iso",
       error |-> "",
       attempts |-> IF status = "pending" THEN 0 ELSE 1,
       slept |-> 0]>>

\* PipelineRun.from_dict on a stored run
PipelineRun_from_dict(pipeline_id, status) ==
    [pipeline_id |-> pipeline_id,
     status |-> status,
     created_at |-> 1,
     variables |-> NewVariables(pipeline_id),
     started_at |-> IF status = "pending" THEN None ELSE 1,
     finished_at |-> IF status \in {"success", "failed"} THEN 1 ELSE None,
     steps |-> StoredSteps(status)]

InitLoaded ==
    \E defs \in SUBSET LoadedPipelineIds, live \in SUBSET LoadedRunIds,
       hist \in SUBSET LoadedRunIds,
       pid \in [LoadedRunIds -> LoadedPipelineIds],
       st \in [LoadedRunIds -> PipelineStatus] :
        /\ live \cap hist = {}
        /\ \A r \in live : st[r] \in {"pending", "running", "cancelled"}
        /\ \A r \in hist : st[r] \in Terminal
        /\ \A r \in LoadedRunIds \ (live \cup hist) : pid[r] = 1 /\ st[r] = "pending"
        /\ pipelines = [p \in defs |-> [steps |-> <<>>, variables |-> NewVariables(p), created_at |-> 1]]
        /\ runs = Ascending(live)
        /\ obj = [r \in live |-> PipelineRun_from_dict(pid[r], st[r])]
        /\ run_history = [i \in 1..Cardinality(hist) |->
                             LET r == Ascending(hist)[i]
                             IN [id |-> r] @@ PipelineRun_from_dict(pid[r], st[r])]
        /\ task = [r \in live |-> NoTask]
        /\ cancel_at = [r \in live |-> NotCancelled]
        /\ n_pipelines = 0
        /\ n_runs = 0
        /\ now = 1
        /\ ret = NoCall
        /\ saved = FALSE
        /\ call = Idle
        /\ disk = "ok"
        /\ heap = NewHeap
        /\ file = Stored(Snapshot)

NextLoaded ==
    \/ \E r \in LoadedRunIds : cancel_run(r)
    \/ \E p \in LoadedPipelineIds : cancel_pipeline(p)
    \/ \E r \in LoadedRunIds : delete_run(r)
    \/ \E p \in LoadedPipelineIds : delete_pipeline(p)

SpecLoaded == InitLoaded /\ [][NextLoaded]_vars

\* The configurations a caller can hand to create_pipeline: a step dict may
\* lack 'name' or 'command', hold only the two required keys, or carry a
\* 'status' key; the configuration may lack 'name' or 'steps'.
RawSteps ==
    StepTemplates \cup
    {[command |-> "cmd"], [name |-> "step"], [name |-> "step", command |-> "cmd"],
     [name |-> "step", command |-> "cmd", status |-> "success"]}
RawStepLists == UNION {[1..n -> RawSteps] : n \in 0..MaxSteps}
RawConfigs ==
    {[name |-> "pipeline", steps |-> steps] : steps \in RawStepLists}
    \cup {[steps |-> <<>>], [name |-> "pipeline"]}

\* An empty engine whose caller creates pipelines from arbitrary configurations
\* and creates or dispatches runs of them; no executor step is taken.
NextConfig ==
    \/ \E pipeline_config \in RawConfigs : create_pipeline(pipeline_config)
    \/ \E p \in PipelineIds : create_run(p)
    \/ \E p \in PipelineIds : run_pipeline(p)

SpecConfig == Init /\ [][NextConfig]_vars

\* One run just dispatched by run_pipeline, its steps drawn from templates with
\* retry counts up to MaxStepRetry; the caller makes no further call and the
\* executor task runs to its end.
DeepTemplates ==
    [name : {"step"}, command : {"cmd"}, retry_count : (0 - 1)..MaxStepRetry,
     continue_on_error : BOOLEAN]
DeepStepLists == UNION {[1..n -> DeepTemplates] : n \in 0..MaxSteps}

InitStep ==
    \E steps \in DeepStepLists :
      LET pipeline_id == 1
          id == MaxPipelines + 1
      IN /\ pipelines = (pipeline_id :> [steps |-> steps, variables |-> NewVariables(pipeline_id),
                                         created_at |-> 1])
         /\ runs = <<id>>
         /\ obj = (id :> PipelineRun_from_config(pipeline_id, pipelines[pipeline_id], 1))
         /\ run_history = <<>>
         /\ task = (id :> [NoTask EXCEPT !.pc = "dispatched"])
         /\ cancel_at = (id :> NotCancelled)
         /\ n_pipelines = 1
         /\ n_runs = 1
         /\ now = 1
         /\ ret = <<"run_pipeline", "id", id>>
         /\ saved = TRUE
         /\ call = Idle
         /\ disk = "ok"
         /\ heap = NewHeap
         /\ file = Stored(Snapshot)

NextStep ==
    \/ \E r \in RunIds : execute_run_lookup(r)
    \/ \E r \in RunIds : execute_run_get(r)
    \/ \E r \in RunIds : execute_run_begin(r)
    \/ \E r \in RunIds : execute_run_loop(r)
    \/ \E r \in RunIds : execute_step_begin(r)
    \/ \E r \in RunIds, out \in Outcomes : execute_step_attempt(r, out)
    \/ \E r \in RunIds : execute_run_after_step(r)
    \/ \E r \in RunIds : execute_run_finish(r)
    \/ \E r \in RunIds : move_run_to_history_append(r)
    \/ \E r \in RunIds : move_run_to_history_check(r)
    \/ \E r \in RunIds : move_run_to_history_del(r)
    \/ \E r \in RunIds : execute_run_return(r)

SpecStep == InitStep /\ [][NextStep]_vars

\* An engine loaded from a data file whose runs carry any created_at values and
\* whose live map lists its runs in any order (runs created by concurrent
\* callers, or with equal timestamps); the caller then queries it.
Orders(S) ==
    {s \in [1..Cardinality(S) -> S] : \A i, j \in DOMAIN s : s[i] = s[j] => i = j}

InitQuery ==
    \E defs \in SUBSET LoadedPipelineIds,
       where \in [LoadedRunIds -> {"live", "history", "absent"}],
       pid \in [LoadedRunIds -> LoadedPipelineIds],
       active \in [LoadedRunIds -> BOOLEAN],
       created \in [LoadedRunIds -> 1..MaxCreated],
       defined \in [LoadedPipelineIds -> 1..MaxCreated] :
      LET live == {r \in LoadedRunIds : where[r] = "live"}
          hist == Ascending({r \in LoadedRunIds : where[r] = "history"})
          status(r) == IF where[r] = "live"
                       THEN IF active[r] THEN "running" ELSE "pending"
                       ELSE IF active[r] THEN "success" ELSE "failed"
          run(r) == [PipelineRun_from_dict(pid[r], status(r)) EXCEPT !.created_at = created[r]]
      IN /\ \A r \in LoadedRunIds :
               where[r] = "absent" => pid[r] = 1 /\ active[r] /\ created[r] = 1
         /\ \A p \in LoadedPipelineIds \ defs : defined[p] = 1
         /\ pipelines = [p \in defs |-> [steps |-> <<>>, variables |-> NewVariables(p),
                                          created_at |-> defined[p]]]
         /\ runs \in Orders(live)
         /\ obj = [r \in live |-> run(r)]
         /\ run_history = [i \in DOMAIN hist |-> [id |-> hist[i]] @@ run(hist[i])]
         /\ task = [r \in live |-> NoTask]
         /\ cancel_at = [r \in live |-> NotCancelled]
         /\ n_pipelines = 0
         /\ n_runs = 0
         /\ now = 1
         /\ ret = NoCall
         /\ saved = FALSE
         /\ call = Idle
         /\ disk = "ok"
         /\ heap = NewHeap
         /\ file = Stored(Snapshot)

NextQuery ==
    \/ \E p \in LoadedPipelineIds : get_pipeline_status(p)
    \/ list_pipelines

SpecQuery == InitQuery /\ [][NextQuery]_vars

\* One dispatched run whose executor runs to its end while a caller lists the
\* runs and asks for the status of that run and of an id never issued.
QueryRunIds == RunIds \cup {MaxPipelines + MaxRuns + 1}

NextObserve ==
    \/ NextStep
    \/ \E p \in {None} \cup PipelineIds : list_runs(p)
    \/ \E r \in QueryRunIds : get_run_status_check(r)
    \/ get_run_status_detail

SpecObserve == InitStep /\ [][NextObserve]_vars

\* The data file stops being writable (disk full, directory gone) and is later
\* writable again.
disk_change ==
    /\ disk \in {"ok", "failing"}
    /\ disk' = IF disk = "ok" THEN "failing" ELSE "repaired"
    /\ UNCHANGED <<pipelines, runs, obj, run_history, task, n_pipelines, n_runs, now,
                   call, file, heap, cancel_at>>
    /\ ret' = NoCall
    /\ saved' = FALSE

\* One run just dispatched by run_pipeline; its executor thread runs to its end,
\* its final _save_data taken in two steps, while the caller's thread cancels
\* and deletes and while the data file may stop being writable.  The run has at
\* most one step, which is not retried.
StoreStepLists ==
    {steps \in StepLists : Len(steps) <= 1 /\ \A i \in DOMAIN steps : steps[i].retry_count = 0}

InitStore ==
    \E steps \in StoreStepLists :
      LET pipeline_id == 1
          id == MaxPipelines + 1
      IN /\ pipelines = (pipeline_id :> [steps |-> steps, variables |-> NewVariables(pipeline_id),
                                         created_at |-> 1])
         /\ runs = <<id>>
         /\ obj = (id :> PipelineRun_from_config(pipeline_id, pipelines[pipeline_id], 1))
         /\ run_history = <<>>
         /\ task = (id :> [NoTask EXCEPT !.pc = "dispatched"])
         /\ cancel_at = (id :> NotCancelled)
         /\ n_pipelines = 1
         /\ n_runs = 1
         /\ now = 1
         /\ ret = <<"run_pipeline", "id", id>>
         /\ saved = TRUE
         /\ call = Idle
         /\ disk = "ok"
         /\ heap = NewHeap
         /\ file = Stored(Snapshot)

NextStore ==
    \/ \E r \in RunIds : cancel_run(r)
    \/ \E p \in PipelineIds : cancel_pipeline(p)
    \/ \E r \in RunIds : delete_run(r)
    \/ \E p \in PipelineIds : delete_pipeline(p)
    \/ \E r \in RunIds : execute_run_lookup(r)
    \/ \E r \in RunIds : execute_run_get(r)
    \/ \E r \in RunIds : execute_run_begin(r)
    \/ \E r \in RunIds : execute_run_loop(r)
    \/ \E r \in RunIds : execute_step_begin(r)
    \/ \E r \in RunIds, out \in Outcomes : execute_step_attempt(r, out)
    \/ \E r \in RunIds : execute_run_after_step(r)
    \/ \E r \in RunIds : execute_run_finish(r)
    \/ \E r \in RunIds : move_run_to_history_append(r)
    \/ \E r \in RunIds : move_run_to_history_check(r)
    \/ \E r \in RunIds : move_run_to_history_del(r)
    \/ \E r \in RunIds : execute_run_except(r)
    \/ \E r \in RunIds : execute_run_save(r)
    \/ \E r \in RunIds : execute_run_write(r)
    \/ disk_change

SpecStore == InitStore /\ [][NextStore]_vars

\* ------------------------------------------- save and restart, field by field
\* class PipelineStatus / class StepStatus as Enum classes: member name -> value.
\* An object holds a member (its name here), a dict holds the member's value.
PipelineStatusEnum ==
    [PENDING |-> "pending", RUNNING |-> "running", SUCCESS |-> "success",
     FAILED |-> "failed", CANCELLED |-> "cancelled"]
StepStatusEnum ==
    [PENDING |-> "pending", RUNNING |-> "running", SUCCESS |-> "success",
     FAILED |-> "failed", SKIPPED |-> "skipped"]

\* Enum(value): the member with that value (ValueError when there is none)
EnumCall(enum, v) == CHOOSE m \in DOMAIN enum : enum[m] = v

\* PipelineStep.to_dict, lines 84-98
PipelineStep_to_dict_full(step) ==
    [name |-> step.name,
     description |-> step.description,
     command |-> step.command,
     timeout |-> step.timeout,
     retry_count |-> step.retry_count,
     continue_on_error |-> step.continue_on_error,
     status |-> StepStatusEnum[step.status],
     start_time |-> step.start_time,
     end_time |-> step.end_time,
     output |-> step.output,
     error |-> step.error]

\* PipelineStep.from_dict without lines 70-80: the runtime state is not
\* restored
PipelineStep_from_dict_full_without_runtime(step_data) ==
    [name |-> step_data.name,
     command |-> step_data.command,
     description |-> Get(step_data, "description", ""),
     timeout |-> Get(step_data, "timeout", 300),
     retry_count |-> Get(step_data, "retry_count", 0),
     continue_on_error |-> Get(step_data, "continue_on_error", FALSE),
     status |-> "PENDING",
     start_time |-> "",
     end_time |-> "",
     output |-> "",
     error |-> ""]

\* PipelineStep.from_dict, lines 59-82, every field of the dataclass
PipelineStep_from_dict_full(step_data) ==
    [name |-> step_data.name,
     command |-> step_data.command,
     description |-> Get(step_data, "description", ""),
     timeout |-> Get(step_data, "timeout", 300),
     retry_count |-> Get(step_data, "retry_count", 0),
     continue_on_error |-> Get(step_data, "continue_on_error", FALSE),
     status |-> IF "status" \in DOMAIN step_data
                THEN EnumCall(StepStatusEnum, step_data.status)
                ELSE "PENDING",
     start_time |-> Get(step_data, "start_time", ""),
     end_time |-> Get(step_data, "end_time", ""),
     output |-> Get(step_data, "output", ""),
     error |-> Get(step_data, "error", "")]

\* PipelineRun.to_dict, lines 145-160
PipelineRun_to_dict_full(run) ==
    [id |-> run.id,
     pipeline_id |-> run.pipeline_id,
     name |-> run.name,
     version |-> run.version,
     description |-> run.description,
     variables |-> run.variables,
     status |-> PipelineStatusEnum[run.status],
     created_at |-> run.created_at,
     started_at |-> run.started_at,
     finished_at |-> run.finished_at,
     total_duration |-> run.total_duration,
     steps |-> [i \in DOMAIN run.steps |-> PipelineStep_to_dict_full(run.steps[i])]]

\* whether PipelineRun.from_dict raises, lines 130-143: KeyError for a key the
\* dict lacks, ValueError for a status that is no PipelineStatus value, or the
\* error of a step dict
PipelineRun_from_dict_full_raises(run_data) ==
    \/ \E key \in {"id", "pipeline_id", "name", "version", "description", "variables",
                   "status", "created_at", "started_at", "finished_at",
                   "total_duration", "steps"} : key \notin DOMAIN run_data
    \/ run_data.status \notin PipelineStatus
    \/ \E i \in DOMAIN run_data.steps :
          PipelineStep_from_dict_raises(run_data.steps[i]) # "none"

\* PipelineRun.from_dict, lines 127-143
PipelineRun_from_dict_full(run_data) ==
    [id |-> run_data.id,
     pipeline_id |-> run_data.pipeline_id,
     name |-> run_data.name,
     version |-> run_data.version,
     description |-> run_data.description,
     variables |-> run_data.variables,
     status |-> EnumCall(PipelineStatusEnum, run_data.status),
     created_at |-> run_data.created_at,
     started_at |-> run_data.started_at,
     finished_at |-> run_data.finished_at,
     total_duration |-> run_data.total_duration,
     steps |-> [i \in DOMAIN run_data.steps |->
                   PipelineStep_from_dict_full(run_data.steps[i])]]

\* _save_data, lines 229-242, over full objects: 'runs' lists the items
\* <<run_id, run.to_dict()>> of self.runs in its order
SaveData ==
    [pipelines |-> pipelines,
     runs |-> [k \in DOMAIN runs |-> <<runs[k], PipelineRun_to_dict_full(obj[runs[k]])>>],
     run_history |-> run_history]

\* _save_data called on an engine of full objects
save_data ==
    /\ ret' = <<"_save_data", "none", 0>>
    /\ saved' = TRUE
    /\ UNCHANGED <<pipelines, runs, obj, run_history, task, n_pipelines, n_runs, now,
                   call, heap, cancel_at>>
    /\ Write(SaveData)

\* the containers of an engine: __init__ lines 178-180, and lines 222-224
EmptyEngine == [pipelines |-> <<>>, runs |-> <<>>, obj |-> <<>>, run_history |-> <<>>]

\* whether the try block of _load_data raises (lines 194-210): pickle.load on
\* bytes that are no pickle, or from_dict on some run record
load_data_raises(f) ==
    \/ f.state = "corrupt"
    \/ /\ f.state = "ok"
       /\ \E k \in DOMAIN Get(f.data, "runs", <<>>) :
             PipelineRun_from_dict_full_raises(Get(f.data, "runs", <<>>)[k][2])

\* _load_data without lines 222-224: what the try block had assigned when
\* from_dict raised stays
load_data_keeping_partial(f) ==
    IF f.state = "absent" THEN EmptyEngine
    ELSE IF f.state = "corrupt" THEN EmptyEngine
    ELSE LET items == Get(f.data, "runs", <<>>)
             bad == {k \in DOMAIN items : PipelineRun_from_dict_full_raises(items[k][2])}
             n == IF bad = {} THEN Len(items)
                  ELSE (CHOOSE k \in bad : \A j \in bad : k <= j) - 1
         IN [pipelines |-> Get(f.data, "pipelines", <<>>),
             runs |-> [k \in 1..n |-> items[k][1]],
             obj |-> [id \in {items[k][1] : k \in 1..n} |->
                        PipelineRun_from_dict_full(
                            items[CHOOSE k \in 1..n : items[k][1] = id][2])],
             run_history |-> IF bad = {} THEN Get(f.data, "run_history", <<>>) ELSE <<>>]

\* _load_data, lines 192-224: the containers it leaves.  No file: nothing is
\* read.  Any exception of the try block: all three containers are reset.
load_data(f) ==
    IF f.state = "absent" \/ load_data_raises(f) THEN EmptyEngine
    ELSE LET items == Get(f.data, "runs", <<>>)
         IN [pipelines |-> Get(f.data, "pipelines", <<>>),
             runs |-> [k \in DOMAIN items |-> items[k][1]],
             obj |-> [id \in {items[k][1] : k \in DOMAIN items} |->
                        PipelineRun_from_dict_full(
                            items[CHOOSE k \in DOMAIN items : items[k][1] = id][2])],
             run_history |-> Get(f.data, "run_history", <<>>)]

\* _cleanup_data, lines 254-272: a status that is an Enum member becomes its
\* value, a missing status becomes 'unknown'
cleanup_data(history) ==
    [i \in DOMAIN history |->
        IF "status" \notin DOMAIN history[i]
        THEN [key \in DOMAIN history[i] \cup {"status"} |->
                 IF key = "status" THEN "unknown" ELSE history[i][key]]
        ELSE IF history[i].status \in DOMAIN PipelineStatusEnum
        THEN [history[i] EXCEPT !.status = PipelineStatusEnum[history[i].status]]
        ELSE history[i]]

\* lines 213-220: after a failed load the data file is renamed to
\* data_file + '.backup'; an exception of os.rename (a directory that cannot be
\* written) is swallowed and the file stays
rename_aside(f) ==
    IF disk = "failing" THEN f
    ELSE [state |-> "absent", data |-> NoData,
          backup |-> [state |-> f.state, data |-> f.data]]

\* The engine process ends and a fresh engine is constructed over the data
\* file: __init__, lines 176-185, with _load_data and _cleanup_data.
restart ==
    LET loaded == load_data(file) IN
    /\ pipelines' = loaded.pipelines
    /\ runs' = loaded.runs
    /\ obj' = loaded.obj
    /\ run_history' = cleanup_data(loaded.run_history)
    /\ file' = IF load_data_raises(file) THEN rename_aside(file) ELSE file
    /\ task' = [r \in Range(loaded.runs) |-> NoTask]
    /\ cancel_at' = [r \in Range(loaded.runs) |-> NotCancelled]
    /\ ret' = <<"__init__", "none", 0>>
    /\ saved' = FALSE
    /\ call' = Idle
    /\ UNCHANGED <<n_pipelines, n_runs, now, disk, heap>>

\* The full objects of an engine state.  A step as _execute_step can leave it.
StepObjects ==
    {[name |-> "step", description |-> "", command |-> "cmd", timeout |-> 300,
      retry_count |-> 1, continue_on_error |-> TRUE,
      status |-> rt[1], start_time |-> rt[2], end_time |-> rt[3],
      output |-> rt[4], error |-> rt[5]] :
        rt \in {<<"PENDING", "", "", "", "">>,
                <<"RUNNING", "t1", "", "", "">>,
                <<"SUCCESS", "t1", "t2", "out", "">>,
                <<"FAILED", "t1", "t2", "", "err">>,
                <<"FAILED", "t1", "t2", "out", "err">>}}
StepObjectLists == UNION {[1..n -> StepObjects] : n \in 0..MaxSteps}

\* a run object by its id, pipeline, status, timestamps and steps
RunObject(id, pipeline_id, status, times, steps) ==
    [id |-> id, pipeline_id |-> pipeline_id, name |-> "pipeline", version |-> "1.0.0",
     description |-> "", variables |-> [ENV |-> "prod"], steps |-> steps,
     status |-> status, created_at |-> times[1], started_at |-> times[2],
     finished_at |-> times[3], total_duration |-> None]

\* a definition as create_pipeline stores it, lines 299-308
Definition(pipeline_id) ==
    [id |-> pipeline_id, name |-> "pipeline", version |-> "1.0.0", description |-> "",
     variables |-> [ENV |-> "prod"],
     steps |-> <<[name |-> "step", command |-> "cmd"]>>,
     created_at |-> pipeline_id, updated_at |-> pipeline_id]

\* An engine in any state the operations can leave: definitions, live runs in
\* any order (one of them with any step list), history records in any order;
\* no data file yet.
InitMemory ==
    \E defs \in SUBSET LoadedPipelineIds,
       where \in [LoadedRunIds -> {"live", "history", "absent"}],
       status \in DOMAIN PipelineStatusEnum,
       times \in {<<1, None, None>>, <<1, 1, None>>, <<1, 1, 2>>},
       steps \in StepObjectLists :
      LET first == LoadedPipelines + 1
          live == {r \in LoadedRunIds : where[r] = "live"}
          hist == {r \in LoadedRunIds : where[r] = "history"}
          plain(r) == RunObject(r, 1, IF r \in live THEN "PENDING" ELSE "SUCCESS",
                                IF r \in live THEN <<r, None, None>> ELSE <<r, r, r>>,
                                IF r \in live THEN <<>>
                                ELSE <<CHOOSE st \in StepObjects :
                                          st.status = "SUCCESS">>)
      IN /\ where[first] # "live" =>
               status = "PENDING" /\ times = <<1, None, None>> /\ steps = <<>>
         /\ pipelines = [p \in defs |-> Definition(p)]
         /\ runs \in Orders(live)
         /\ obj = [r \in live |->
                      IF r = first THEN RunObject(r, LoadedPipelines, status, times, steps)
                      ELSE plain(r)]
         /\ run_history \in {[i \in DOMAIN o |-> PipelineRun_to_dict_full(plain(o[i]))] :
                                o \in Orders(hist)}
         /\ task = [r \in live |-> NoTask]
         /\ cancel_at = [r \in live |-> NotCancelled]
         /\ n_pipelines = 0
         /\ n_runs = 0
         /\ now = 1
         /\ ret = NoCall
         /\ saved = FALSE
         /\ call = Idle
         /\ disk = "ok"
         /\ heap = NewHeap
         /\ file = Absent

\* The run records a data file can hold: records written by to_dict, a record
\* of an older version that lacks 'name', a record with a status that is no
\* PipelineStatus value, a record with a step dict that lacks 'command'.
GoodRecord(id) ==
    PipelineRun_to_dict_full(
        RunObject(id, 1, "RUNNING", <<1, 1, None>>,
                  <<CHOOSE st \in StepObjects : st.status = "RUNNING">>))
RunRecords(id) ==
    {GoodRecord(id),
     [key \in DOMAIN GoodRecord(id) \ {"name"} |-> GoodRecord(id)[key]],
     [GoodRecord(id) EXCEPT !.status = "unknown"],
     [GoodRecord(id) EXCEPT !.steps = <<[name |-> "step"]>>]}

\* the history records a data file can hold: written by to_dict, lacking
\* 'status', or holding an Enum member
HistoryRecords(id) ==
    LET rec == PipelineRun_to_dict_full(RunObject(id, 1, "FAILED", <<1, 1, 2>>, <<>>))
    IN {rec, [key \in DOMAIN rec \ {"status"} |-> rec[key]],
        [rec EXCEPT !.status = "FAILED"]}

\* the dicts a data file can hold
DataFiles ==
    {[pipelines |-> [p \in defs |-> Definition(p)], runs |-> items, run_history |-> h] :
        defs \in {{}, {1}},
        items \in {<<>>} \cup {<<<<3, r>>>> : r \in RunRecords(3)}
                  \cup {<<<<3, r>>, <<4, q>>>> : r \in RunRecords(3), q \in RunRecords(4)},
        h \in {<<>>} \cup {<<r>> : r \in HistoryRecords(5)}}
    \cup {[pipelines |-> (1 :> Definition(1))]}

\* An engine being constructed (containers empty, lines 178-180) over a data
\* file in any state, in a directory that can or cannot be written.
InitFile ==
    /\ pipelines = <<>>
    /\ runs = <<>>
    /\ obj = <<>>
    /\ run_history = <<>>
    /\ task = <<>>
    /\ cancel_at = <<>>
    /\ n_pipelines = 0
    /\ n_runs = 0
    /\ now = 1
    /\ ret = NoCall
    /\ saved = FALSE
    /\ call = Idle
    /\ disk \in {"ok", "failing"}
    /\ heap = NewHeap
    /\ file \in {Absent, Corrupt} \cup {Stored(data) : data \in DataFiles}

InitRestart == InitMemory \/ InitFile

NextRestart ==
    \/ save_data
    \/ restart

SpecRestart == InitRestart /\ [][NextRestart]_vars

\* ----------------------------------------------------- the executor, with fairness
\* every step of the executor thread of run r (_execute_run, lines 341-392)
execute_run(r) ==
    \/ execute_run_lookup(r)
    \/ execute_run_get(r)
    \/ execute_run_begin(r)
    \/ execute_run_loop(r)
    \/ execute_step_begin(r)
    \/ \E out \in Outcomes : execute_step_attempt(r, out)
    \/ execute_run_after_step(r)
    \/ execute_run_finish(r)
    \/ move_run_to_history_append(r)
    \/ move_run_to_history_check(r)
    \/ move_run_to_history_del(r)
    \/ execute_run_except(r)
    \/ execute_run_return(r)

\* An empty engine whose caller creates a pipeline of at most one step, creates
\* or dispatches a run, cancels and deletes.  A started executor thread keeps being
\* scheduled and every subprocess.run returns (it has a timeout), so each
\* executor takes its next step as long as it has one; the caller may stop
\* calling at any time.
NextLive ==
    \/ \E steps \in StoreStepLists : create_pipeline([name |-> "pipeline", steps |-> steps])
    \/ \E p \in PipelineIds : create_run(p)
    \/ \E p \in PipelineIds : run_pipeline(p)
    \/ \E r \in RunIds : cancel_run(r)
    \/ \E p \in PipelineIds : cancel_pipeline(p)
    \/ \E r \in RunIds : delete_run(r)
    \/ \E r \in RunIds : execute_run(r)

SpecLive == Init /\ [][NextLive]_vars /\ \A r \in RunIds : WF_vars(execute_run(r))

\* Two runs of one pipeline, both just dispatched by run_pipeline, and the
\* history record of an earlier run; the two executor threads run to their
\* ends while the caller deletes runs and lists them.
IsolateRunIds == (MaxPipelines + 1)..(MaxPipelines + IsolateRuns)

InitIsolate ==
    \E steps \in StoreStepLists :
      LET pipeline_id == 1
          earlier == MaxPipelines + IsolateRuns + 1
      IN /\ pipelines = (pipeline_id :> [steps |-> steps, variables |-> NewVariables(pipeline_id),
                                         created_at |-> 1])
         /\ runs = Ascending(IsolateRunIds)
         /\ obj = [r \in IsolateRunIds |->
                      PipelineRun_from_config(pipeline_id, pipelines[pipeline_id], 1)]
         /\ run_history = <<[id |-> earlier] @@ PipelineRun_from_dict(pipeline_id, "success")>>
         /\ task = [r \in IsolateRunIds |-> [NoTask EXCEPT !.pc = "dispatched"]]
         /\ cancel_at = [r \in IsolateRunIds |-> NotCancelled]
         /\ n_pipelines = 1
         /\ n_runs = IsolateRuns
         /\ now = 1
         /\ ret = <<"run_pipeline", "id", MaxPipelines + IsolateRuns>>
         /\ saved = TRUE
         /\ call = Idle
         /\ disk = "ok"
         /\ heap = NewHeap
         /\ file = Stored(Snapshot)

NextIsolate ==
    \/ \E r \in IsolateRunIds : execute_run(r)
    \/ \E r \in IsolateRunIds : delete_run(r)
    \/ list_runs(None)

SpecIsolate == InitIsolate /\ [][NextIsolate]_vars

\* The caller changes an entry of the variables dict of its own configuration
\* object, some time after it passed the object to create_pipeline.
config_variables_set ==
    /\ heap[ConfigVariables] = "prod"
    /\ heap' = [heap EXCEPT ![ConfigVariables] = "test"]
    /\ UNCHANGED <<pipelines, runs, obj, run_history, task, n_pipelines, n_runs, now,
                   call, file, disk, cancel_at>>
    /\ ret' = NoCall
    /\ saved' = FALSE

\* An empty engine whose caller creates a pipeline from a configuration with
\* or without 'variables', creates, dispatches and deletes runs of it, and
\* goes on using its configuration object.
NextOwn ==
    \/ \E steps \in StoreStepLists :
          create_pipeline([name |-> "pipeline", steps |-> steps, variables |-> ConfigVariables])
    \/ \E steps \in StoreStepLists : create_pipeline([name |-> "pipeline", steps |-> steps])
    \/ \E p \in PipelineIds : create_run(p)
    \/ \E p \in PipelineIds : run_pipeline(p)
    \/ \E r \in RunIds : delete_run(r)
    \/ \E r \in RunIds : execute_run(r)
    \/ config_variables_set

SpecOwn == Init /\ [][NextOwn]_vars

\* ------------------------------------------------- variable substitution
\* A command is a string, here the sequence of its characters.  str.replace:
\* every occurrence of old, found from the left and not overlapping, becomes new
RECURSIVE replace(_, _, _)
replace(s, old, new) ==
    IF Len(s) < Len(old) THEN s
    ELSE IF SubSeq(s, 1, Len(old)) = old
    THEN new \o replace(SubSeq(s, Len(old) + 1, Len(s)), old, new)
    ELSE <<s[1]>> \o replace(Tail(s), old, new)

\* lines 401-404: for each item of the dict in its order, replace ${key} and
\* then $key in what the previous replacements left
RECURSIVE substitute(_, _)
substitute(command, variables) ==
    IF variables = <<>> THEN command
    ELSE LET key == variables[1][1]
             value == variables[1][2]
             braced == replace(command, <<"$", "{">> \o key \o <<"}">>, value)
         IN substitute(replace(braced, <<"$">> \o key, value), Tail(variables))

\* the characters of the commands, and those a variable name is made of
Characters == {"$", "{", "}", "V", "X", " "}
NameCharacters == {"V", "X"}
Commands == UNION {[1..n -> Characters] : n \in 0..MaxCommand}

\* the variables dicts of a run, as the list of their items: none, VAR alone,
\* VAR and VARX in either order
VariableDicts ==
    {<<>>,
     <<<<<<"V">>, <<"x">>>>>>,
     <<<<<<"V">>, <<"x">>>>, <<<<"V", "X">>, <<"y">>>>>>,
     <<<<<<"V", "X">>, <<"y">>>>, <<<<"V">>, <<"x">>>>>>}

\* An executor about to substitute the variables of its run in the command of
\* a step (line 401): any command, any variables.
InitSubstitute ==
    /\ pipelines = <<>>
    /\ runs = <<>>
    /\ obj = <<>>
    /\ run_history = <<>>
    /\ task = <<>>
    /\ n_pipelines = 0
    /\ n_runs = 0
    /\ now = 1
    /\ \E command \in Commands, variables \in VariableDicts :
          ret = <<"_execute_step", "step.command", <<command, variables>>>>
    /\ saved = FALSE
    /\ call = Idle
    /\ disk = "ok"
    /\ heap = NewHeap
    /\ file = Absent
    /\ cancel_at = <<>>

\* lines 401-406: the command that is run
execute_step_substitute ==
    /\ ret[1] = "_execute_step" /\ ret[2] = "step.command"
    /\ ret' = <<"_execute_step", "command",
                <<ret[3][1], ret[3][2], substitute(ret[3][1], ret[3][2])>>>>
    /\ saved' = FALSE
    /\ UNCHANGED <<pipelines, runs, obj, run_history, task, n_pipelines, n_runs, now,
                   call, file, disk, heap, cancel_at>>

NextSubstitute == execute_step_substitute

SpecSubstitute == InitSubstitute /\ [][NextSubstitute]_vars

\* ------------------------------------------- the data file and its locks
\* An engine thread in _save_data, lines 226-252, statement by statement, and a
\* second engine process over the same file in the _load_data of its
\* constructor, lines 192-224.  ret holds the save in progress: its position
\* and its locals, the dict built, the file its descriptor refers to and
\* whether the bytes written have left the buffer of the file object.  call
\* holds the load in progress: arg is the line the loader is about to execute.
Saving(where) == ret[1] = "_save_data" /\ ret[2] = where
Loading(line) == call.op = "_load_data" /\ call.arg = line

\* flock: LOCK_EX is held from line 245 to line 247, LOCK_SH from line 197
\* until pickle.load has returned (line 199) or raised
HoldsExclusive == Saving("locked") \/ Saving("dumped")
HoldsShared == Loading(198)

\* lines 229-242: the dict to pickle is built
save_data_build ==
    /\ ~(ret[1] = "_save_data" /\ ret[2] # "none")
    /\ ret' = <<"_save_data", "built", [data |-> SaveData, fd |-> "file", flushed |-> FALSE]>>
    /\ saved' = FALSE
    /\ UNCHANGED <<pipelines, runs, obj, run_history, task, n_pipelines, n_runs, now,
                   call, file, disk, heap, cancel_at>>

\* line 244: open(self.data_file, 'wb') creates the file or truncates it to
\* no bytes; no lock is asked for yet
save_data_open ==
    /\ Saving("built")
    /\ file' = [file EXCEPT !.state = "corrupt", !.data = NoData]
    /\ ret' = <<"_save_data", "opened", ret[3]>>
    /\ saved' = FALSE
    /\ UNCHANGED <<pipelines, runs, obj, run_history, task, n_pipelines, n_runs, now,
                   call, disk, heap, cancel_at>>

\* line 245: fcntl.flock(f.fileno(), fcntl.LOCK_EX) waits while a shared lock
\* is held
save_data_flock ==
    /\ Saving("opened")
    /\ ~HoldsShared
    /\ ret' = <<"_save_data", "locked", ret[3]>>
    /\ saved' = FALSE
    /\ UNCHANGED <<pipelines, runs, obj, run_history, task, n_pipelines, n_runs, now,
                   call, file, disk, heap, cancel_at>>

\* the bytes of the pickle reach the open file, which is the data file or,
\* once a loader has renamed it, the file data_file + '.backup'
Flush ==
    IF ret[3].fd = "file"
    THEN [file EXCEPT !.state = "ok", !.data = ret[3].data]
    ELSE [file EXCEPT !.backup = [state |-> "ok", data |-> ret[3].data]]

\* line 246: pickle.dump(data, f) writes into the buffered file object; the
\* bytes reach the file now or stay in the buffer until the file is closed
save_data_dump ==
    /\ Saving("locked")
    /\ \E flushed \in BOOLEAN :
         /\ file' = IF flushed THEN Flush ELSE file
         /\ ret' = <<"_save_data", "dumped", [ret[3] EXCEPT !.flushed = flushed]>>
    /\ saved' = FALSE
    /\ UNCHANGED <<pipelines, runs, obj, run_history, task, n_pipelines, n_runs, now,
                   call, disk, heap, cancel_at>>

\* line 247: fcntl.flock(f.fileno(), fcntl.LOCK_UN)
save_data_unlock ==
    /\ Saving("dumped")
    /\ ret' = <<"_save_data", "unlocked", ret[3]>>
    /\ saved' = FALSE
    /\ UNCHANGED <<pipelines, runs, obj, run_history, task, n_pipelines, n_runs, now,
                   call, file, disk, heap, cancel_at>>

\* the end of the with block of line 244: the file is closed, which writes
\* what the buffer still holds
save_data_close ==
    /\ Saving("unlocked")
    /\ file' = IF ret[3].flushed THEN file ELSE Flush
    /\ ret' = <<"_save_data", "none", 0>>
    /\ saved' = TRUE
    /\ UNCHANGED <<pipelines, runs, obj, run_history, task, n_pipelines, n_runs, now,
                   call, disk, heap, cancel_at>>

\* a second engine process is started: __init__ line 184 calls _load_data
load_data_begin ==
    /\ call = Idle
    /\ call' = [op |-> "_load_data", arg |-> 195]
    /\ saved' = FALSE
    /\ UNCHANGED <<pipelines, runs, obj, run_history, task, n_pipelines, n_runs, now,
                   ret, file, disk, heap, cancel_at>>

\* line 195: if os.path.exists(self.data_file); without a file nothing is read
load_data_exists ==
    /\ Loading(195)
    /\ call' = IF file.state = "absent" THEN Idle ELSE [call EXCEPT !.arg = 196]
    /\ saved' = FALSE
    /\ UNCHANGED <<pipelines, runs, obj, run_history, task, n_pipelines, n_runs, now,
                   ret, file, disk, heap, cancel_at>>

\* line 196: open(self.data_file, 'rb'); FileNotFoundError goes to the handler
load_data_open ==
    /\ Loading(196)
    /\ call' = [call EXCEPT !.arg = IF file.state = "absent" THEN 211 ELSE 197]
    /\ saved' = FALSE
    /\ UNCHANGED <<pipelines, runs, obj, run_history, task, n_pipelines, n_runs, now,
                   ret, file, disk, heap, cancel_at>>

\* line 197: fcntl.flock(f.fileno(), fcntl.LOCK_SH) waits while the exclusive
\* lock is held
load_data_flock ==
    /\ Loading(197)
    /\ ~HoldsExclusive
    /\ call' = [call EXCEPT !.arg = 198]
    /\ saved' = FALSE
    /\ UNCHANGED <<pipelines, runs, obj, run_history, task, n_pipelines, n_runs, now,
                   ret, file, disk, heap, cancel_at>>

\* lines 198-210: pickle.load, the unlock and the assignments; an exception
\* leaves the with block, which closes the file and releases the lock
load_data_pickle ==
    /\ Loading(198)
    /\ call' = IF load_data_raises(file) THEN [call EXCEPT !.arg = 211] ELSE Idle
    /\ saved' = FALSE
    /\ UNCHANGED <<pipelines, runs, obj, run_history, task, n_pipelines, n_runs, now,
                   ret, file, disk, heap, cancel_at>>

\* lines 211-224, the handler: the data file, if there is one, is renamed to
\* data_file + '.backup'; a descriptor a saver holds open follows the file
load_data_except ==
    /\ Loading(211)
    /\ file' = IF file.state = "absent" THEN file ELSE rename_aside(file)
    /\ ret' = IF file.state # "absent" /\ ret[1] = "_save_data"
                 /\ ret[2] \in {"opened", "locked", "dumped", "unlocked"}
              THEN <<ret[1], ret[2], [ret[3] EXCEPT !.fd = "backup"]>>
              ELSE ret
    /\ call' = Idle
    /\ saved' = FALSE
    /\ UNCHANGED <<pipelines, runs, obj, run_history, task, n_pipelines, n_runs, now,
                   disk, heap, cancel_at>>

\* An engine holding definitions, at most one live run and one history record,
\* over a data file that is not there or holds a dict that loads.
InitLock ==
    \E defs \in SUBSET LoadedPipelineIds, live \in SUBSET {LoadedPipelines + 1},
       hist \in SUBSET {LoadedPipelines + 2} :
      /\ pipelines = [p \in defs |-> Definition(p)]
      /\ runs \in Orders(live)
      /\ obj = [r \in live |-> RunObject(r, 1, "PENDING", <<r, None, None>>, <<>>)]
      /\ run_history \in {[i \in DOMAIN o |->
                              PipelineRun_to_dict_full(
                                  RunObject(o[i], 1, "SUCCESS", <<o[i], o[i], o[i]>>, <<>>))] :
                             o \in Orders(hist)}
      /\ task = [r \in live |-> NoTask]
      /\ cancel_at = [r \in live |-> NotCancelled]
      /\ n_pipelines = 0
      /\ n_runs = 0
      /\ now = 1
      /\ ret = NoCall
      /\ saved = FALSE
      /\ call = Idle
      /\ disk = "ok"
      /\ heap = NewHeap
      /\ file \in {Absent} \cup {Stored(data) : data \in {d \in DataFiles :
                                                    ~load_data_raises(Stored(d))}}

NextLock ==
    \/ save_data_build
    \/ save_data_open
    \/ save_data_flock
    \/ save_data_dump
    \/ save_data_unlock
    \/ save_data_close
    \/ load_data_begin
    \/ load_data_exists
    \/ load_data_open
    \/ load_data_flock
    \/ load_data_pickle
    \/ load_data_except

SpecLock == InitLock /\ [][NextLock]_vars

\* ------------------------------------------- the engine process stops
\* PipelineRun.from_dict, lines 127-143, on a record written by to_dict: the
\* fields of the record, each step rebuilt by PipelineStep.from_dict
PipelineRun_from_dict_record(run_data) ==
    [pipeline_id |-> run_data.pipeline_id,
     status |-> run_data.status,
     created_at |-> run_data.created_at,
     started_at |-> run_data.started_at,
     finished_at |-> run_data.finished_at,
     variables |-> run_data.variables,
     steps |-> [i \in DOMAIN run_data.steps |-> PipelineStep_from_dict(run_data.steps[i])]]

\* The engine process ends, and with it every executor thread (run_pipeline
\* line 334: thread.daemon = True); a new process imports the module (line 667:
\* agent = CICDAgent()) and __init__ loads the data file, lines 176-185 and
\* 192-224.  No thread is started for a loaded run.  The file here always
\* holds a dict written by _save_data, whose history statuses _cleanup_data
\* leaves as they are.
engine_load ==
    /\ file.state = "ok"
    /\ pipelines' = file.data.pipelines
    /\ runs' = [k \in DOMAIN file.data.runs |-> file.data.runs[k].id]
    /\ obj' = [r \in {file.data.runs[k].id : k \in DOMAIN file.data.runs} |->
                 PipelineRun_from_dict_record(
                     file.data.runs[CHOOSE k \in DOMAIN file.data.runs :
                                       file.data.runs[k].id = r])]
    /\ run_history' = file.data.run_history
    /\ task' = [r \in {file.data.runs[k].id : k \in DOMAIN file.data.runs} |-> NoTask]
    /\ cancel_at' = [r \in {file.data.runs[k].id : k \in DOMAIN file.data.runs} |->
                        NotCancelled]
    /\ ret' = <<"__init__", "none", 0>>
    /\ saved' = FALSE
    /\ UNCHANGED <<n_pipelines, n_runs, now, file, disk, heap>>

\* the only process ends and the next one starts
engine_restart ==
    /\ engine_load
    /\ call' = Idle

\* One run just dispatched by run_pipeline in the background; its executor
\* thread takes its steps as long as the process lives, the caller cancels and
\* deletes, and at any moment the process may end and a new engine load the
\* data file.
NextResume ==
    \/ \E r \in RunIds : execute_run(r)
    \/ \E r \in RunIds : cancel_run(r)
    \/ \E r \in RunIds : delete_run(r)
    \/ engine_restart

SpecResume == InitStore /\ [][NextResume]_vars /\ \A r \in RunIds : WF_vars(execute_run(r))

\* ------------------------------------------- two engine processes, one file
\* backend_api.execute_agent_command starts one agent_interface process per
\* request; each process constructs its own engine over the same data file.
\* The variables hold the containers of the process that is executing;
\* call.arg holds those of the other process, which waits to be scheduled.
Containers ==
    [pipelines |-> pipelines, runs |-> runs, obj |-> obj, run_history |-> run_history,
     task |-> task, cancel_at |-> cancel_at]

\* the operating system runs the other process
engine_switch ==
    /\ call.op = "process"
    /\ pipelines' = call.arg.pipelines
    /\ runs' = call.arg.runs
    /\ obj' = call.arg.obj
    /\ run_history' = call.arg.run_history
    /\ task' = call.arg.task
    /\ cancel_at' = call.arg.cancel_at
    /\ call' = [op |-> "process", arg |-> Containers]
    /\ ret' = NoCall
    /\ saved' = FALSE
    /\ UNCHANGED <<n_pipelines, n_runs, now, file, disk, heap>>

\* a process started for the next request in place of the executing one:
\* its engine loads the data file; the other process stays as it is
engine_start ==
    /\ engine_load
    /\ UNCHANGED call

\* Two processes whose engines have both loaded a data file with at most one
\* definition, one live run and one history record; each then applies registry
\* operations, among them the creation of one run, and new processes start.
ShareRunIds == RunIds \cup {LoadedPipelines + 1, LoadedPipelines + 2}

InitShare ==
    \E defs \in SUBSET {1}, live \in SUBSET {LoadedPipelines + 1},
       hist \in SUBSET {LoadedPipelines + 2} :
        /\ pipelines = [p \in defs |-> [steps |-> <<>>, variables |-> NewVariables(p),
                                        created_at |-> 1]]
        /\ runs = Ascending(live)
        /\ obj = [r \in live |-> PipelineRun_from_dict(1, "pending")]
        /\ run_history = [i \in 1..Cardinality(hist) |->
                             [id |-> Ascending(hist)[i]] @@ PipelineRun_from_dict(1, "success")]
        /\ task = [r \in live |-> NoTask]
        /\ cancel_at = [r \in live |-> NotCancelled]
        /\ n_pipelines = 0
        /\ n_runs = 0
        /\ now = 1
        /\ ret = NoCall
        /\ saved = FALSE
        /\ call = [op |-> "process", arg |-> Containers]
        /\ disk = "ok"
        /\ heap = NewHeap
        /\ file = Stored(Snapshot)

NextShare ==
    \/ create_run(1)
    \/ \E r \in ShareRunIds : cancel_run(r)
    \/ \E r \in ShareRunIds : delete_run(r)
    \/ delete_pipeline(1)
    \/ engine_start
    \/ engine_switch

SpecShare == InitShare /\ [][NextShare]_vars

\* ------------------------------------------------------------------ claims
Ended(r) == task[r].pc \in {"returned", "raised"}
Count(id) == Cardinality({i \in DOMAIN run_history : run_history[i].id = id})

\* C1: once a run's status is success, failed or cancelled it never changes
\* again, and a run that has left pending never becomes pending again.
C1_StatusOnlyForward ==
    [][\A r \in DOMAIN obj :
          /\ obj[r].status \in Terminal => obj'[r].status = obj[r].status
          /\ obj[r].status # "pending" => obj'[r].status # "pending"]_vars

\* C2: every run id that is in the live map or in history is in exactly one of
\* them, and at most once in history, in every state another task can observe.
C2_LiveXorHistory ==
    \A r \in Live \cup HistoryIds :
        /\ ~(r \in Live /\ r \in HistoryIds)
        /\ Count(r) <= 1

C3_Handled ==
    \A r \in DOMAIN task :
        /\ Ended(r) => ~(r \in Live /\ obj[r].status = "running")
        /\ task[r].handling =>
              /\ obj[r].status = "failed"
              /\ obj[r].finished_at # None
              /\ task[r].pc # "raised"
              /\ task[r].pc = "returned" => ~task[r].success
C3_Relocated ==
    \A r \in DOMAIN task :
        (task[r].handling /\ task[r].pc = "move" /\ task'[r].pc # "move") =>
            /\ Len(run_history') = Len(run_history) + 1
            /\ run_history'[Len(run_history')].id = r
            /\ run_history'[Len(run_history')].status = "failed"
            /\ r \notin Range(runs')

C4_AllStepsSucceed ==
    \A r \in DOMAIN task :
        (/\ task[r].pc = "returned"
         /\ obj[r].started_at # None
         /\ cancel_at[r].when = "never"
         /\ \A k \in DOMAIN obj[r].steps :
               obj[r].steps[k].retry_count >= 0 /\ obj[r].steps[k].status # "failed")
        => /\ obj[r].status = "success"
           /\ \A k \in DOMAIN obj[r].steps : obj[r].steps[k].status = "success"
           /\ obj[r].finished_at >= obj[r].started_at

\* C5: when step k failed and has continue_on_error false, the run ends with
\* status failed, the steps before k are success or failed, and the steps
\* after k are pending and were never executed.
C5_FailFast ==
    \A r \in DOMAIN task : \A k \in DOMAIN obj[r].steps :
        (/\ task[r].pc = "returned"
         /\ obj[r].steps[k].status = "failed"
         /\ ~obj[r].steps[k].continue_on_error)
        => /\ obj[r].status = "failed"
           /\ \A j \in 1..(k - 1) : obj[r].steps[j].status \in StepTerminal
           /\ \A j \in (k + 1)..Len(obj[r].steps) :
                 obj[r].steps[j].status = "pending" /\ obj[r].steps[j].attempts = 0

\* C6 as worded: whenever step k failed with continue_on_error true, the
\* executor went on to execute step k+1 (whatever else happened to the run),
\* and a run ends success only if each step succeeded or has continue_on_error.
C6_ContinueAlways ==
    \A r \in DOMAIN task : \A k \in DOMAIN obj[r].steps :
        task[r].pc = "returned" =>
            /\ (/\ obj[r].steps[k].status = "failed"
                /\ obj[r].steps[k].continue_on_error
                /\ k < Len(obj[r].steps))
               => obj[r].steps[k + 1].status # "pending"
            /\ obj[r].status = "success" =>
                  obj[r].steps[k].status = "success" \/ obj[r].steps[k].continue_on_error

\* C6: in a run that no cancel request reached, when step k failed with
\* continue_on_error true and is not the last step, the executor went on to
\* start step k+1; and a run ends with status success only if each of its
\* steps succeeded or has continue_on_error true.
C6_ContinueOnError ==
    \A r \in DOMAIN task : \A k \in DOMAIN obj[r].steps :
        task[r].pc = "returned" =>
            /\ (/\ obj[r].steps[k].status = "failed"
                /\ obj[r].steps[k].continue_on_error
                /\ k < Len(obj[r].steps)
                /\ cancel_at[r].when = "never")
               => obj[r].steps[k + 1].status # "pending"
            /\ obj[r].status = "success" =>
                  obj[r].steps[k].status = "success" \/ obj[r].steps[k].continue_on_error

\* C6 witness: a finished run with status success whose first step failed with
\* continue_on_error and whose second step was executed.
C6_Witness ==
    \E r \in DOMAIN task :
        /\ task[r].pc = "returned"
        /\ obj[r].status = "success"
        /\ Len(obj[r].steps) = 2
        /\ obj[r].steps[1].status = "failed"
        /\ obj[r].steps[1].continue_on_error
        /\ obj[r].steps[2].attempts > 0

\* C7: a step is started only when the step before it is success or failed,
\* and at most one step of a run has status running.
C7_StrictOrder ==
    \A r \in DOMAIN obj :
        /\ \A k \in 1..(Len(obj[r].steps) - 1) :
              obj[r].steps[k + 1].status # "pending" =>
                  obj[r].steps[k].status \in StepTerminal
        /\ Cardinality({k \in DOMAIN obj[r].steps : obj[r].steps[k].status = "running"}) <= 1

\* C8 as worded: once a cancel found the run running, every step that was
\* still pending at that moment stays pending.
C8_NoLaterStep ==
    \A r \in DOMAIN cancel_at :
        cancel_at[r].when = "running" =>
            \A k \in DOMAIN obj[r].steps :
                k >= cancel_at[r].pending_from => obj[r].steps[k].status = "pending"

C8_Halted ==
    \A r \in DOMAIN cancel_at :
        cancel_at[r].when = "running" =>
            \A k \in DOMAIN obj[r].steps :
                k >= cancel_at[r].pending_from + (IF cancel_at[r].passed THEN 1 ELSE 0) =>
                    obj[r].steps[k].status = "pending" /\ obj[r].steps[k].attempts = 0
C8_NotInterrupted ==
    \A r \in DOMAIN obj :
        (obj[r].status = "running" /\ obj'[r].status = "cancelled") =>
            /\ task'[r] = task[r]
            /\ obj'[r].steps = obj[r].steps

\* C8: a cancel that finds the run running changes neither the executor's
\* position nor any step (the step in flight goes on), and afterwards no step
\* that was still pending is started, except the one step whose cancellation
\* check (line 357) the executor had already passed when the cancel arrived.
C8_CancelHaltsSteps == [](C8_Halted) /\ [][C8_NotInterrupted]_vars

\* C8 witness: a run cancelled while its first step was in flight has ended
\* with its second step still pending.
C8_Witness ==
    \E r \in DOMAIN task :
        /\ task[r].pc = "returned"
        /\ cancel_at[r].when = "running"
        /\ ~cancel_at[r].passed
        /\ cancel_at[r].pending_from = 2
        /\ Len(obj[r].steps) = 2
        /\ obj[r].status = "cancelled"
        /\ obj[r].steps[1].status = "success"
        /\ obj[r].steps[2].status = "pending"

C9_LiveIffTrue(r) ==
    IF r \in Live
    THEN /\ ret' = <<"cancel_run", "bool", TRUE>>
         /\ obj'[r].status = "cancelled"
    ELSE /\ ret' = <<"cancel_run", "bool", FALSE>>
         /\ UNCHANGED <<pipelines, runs, obj, run_history>>

C10_Frame(p) ==
    LET hit == {r \in Live : obj[r].pipeline_id = p} IN
    /\ \A r \in hit : obj'[r] = [obj[r] EXCEPT !.status = "cancelled"]
    /\ \A r \in Live \ hit : obj'[r] = obj[r]
    /\ runs' = runs
    /\ run_history' = run_history
    /\ pipelines' = pipelines
    /\ ret' = <<"cancel_pipeline", "bool", hit # {}>>

\* C10: cancel_pipeline(p) sets status cancelled on every live run whose
\* pipeline_id is p, leaves the live runs of other pipelines, the membership of
\* the live map, every history record and every definition unchanged, and
\* returns True iff at least one live run of p existed.
C10_CancelPipeline ==
    [][\A p \in LoadedPipelineIds : cancel_pipeline(p) => C10_Frame(p)]_vars

\* C10 witness: cancel_pipeline has just returned True with a cancelled live
\* run of one pipeline next to a live run of another pipeline that is not
\* cancelled, and with a history record.
C10_Witness ==
    /\ ret = <<"cancel_pipeline", "bool", TRUE>>
    /\ \E r, q \in Live :
          /\ obj[r].pipeline_id # obj[q].pipeline_id
          /\ obj[r].status = "cancelled"
          /\ obj[q].status \in {"pending", "running"}
    /\ run_history # <<>>

Untouched == UNCHANGED <<pipelines, runs, obj, run_history>> /\ ~saved'

C11_Contract(p) ==
    IF \E r \in Live : obj[r].pipeline_id = p /\ obj[r].status = "running"
    THEN ret' = <<"delete_pipeline", "bool", FALSE>> /\ Untouched
    ELSE IF p \in DOMAIN pipelines
         THEN /\ ret' = <<"delete_pipeline", "bool", TRUE>>
              /\ DOMAIN pipelines' = DOMAIN pipelines \ {p}
              /\ \A q \in DOMAIN pipelines' : pipelines'[q] = pipelines[q]
              /\ UNCHANGED <<runs, obj, run_history>>
         ELSE ret' = <<"delete_pipeline", "bool", FALSE>> /\ Untouched

\* C11: delete_pipeline(p) returns False and leaves definitions, live runs,
\* history and the data file untouched whenever a live run of p is running;
\* otherwise, for a known p, it removes exactly that definition and returns
\* True; for an unknown p it returns False and changes nothing.
C11_DeletePipeline ==
    [][\A p \in LoadedPipelineIds : delete_pipeline(p) => C11_Contract(p)]_vars

\* C11 witness: delete_pipeline has just declined while every pipeline id is
\* defined and each definition has a running live run.
C11_Witness ==
    /\ ret = <<"delete_pipeline", "bool", FALSE>>
    /\ DOMAIN pipelines = LoadedPipelineIds
    /\ \A p \in LoadedPipelineIds :
          \E r \in Live : obj[r].pipeline_id = p /\ obj[r].status = "running"

C12_Contract(r) ==
    IF r \in Live /\ obj[r].status = "running"
    THEN ret' = <<"delete_run", "bool", FALSE>> /\ Untouched
    ELSE IF r \in Live \cup HistoryIds
         THEN /\ ret' = <<"delete_run", "bool", TRUE>>
              /\ r \notin Range(runs')
              /\ \A i \in DOMAIN run_history' : run_history'[i].id # r
              /\ runs' = Remove(runs, r)
              /\ run_history' = SelectSeq(run_history, LAMBDA h : h.id # r)
              /\ UNCHANGED <<pipelines, obj>>
         ELSE ret' = <<"delete_run", "bool", FALSE>> /\ Untouched

\* C12: delete_run(id) returns False and changes nothing when the run is live
\* and running; otherwise it removes exactly that run from the live map or
\* history and returns True, the id being in neither afterwards (a repeated
\* delete returns False); for an id in neither it returns False and changes
\* nothing.
C12_DeleteRun ==
    [][\A r \in RunIds : delete_run(r) => C12_Contract(r)]_vars

\* C13: create_run(p) and run_pipeline(p) on a pipeline id that is not in the
\* definition map raise (ValueError) and leave definitions, live map, run
\* objects, history and the data file unchanged; no run is created and no
\* executor task is started.
C13_UnknownPipeline ==
    [][\A p \in PipelineIds :
          p \notin DOMAIN pipelines /\ (create_run(p) \/ run_pipeline(p))
          => /\ ret'[2] = "raise" /\ ret'[3] = "ValueError"
             /\ Untouched
             /\ UNCHANGED <<task, n_runs>>]_vars

\* C13 witness: the call was refused for an unknown pipeline id while the
\* engine held a run in history and an executor task that had ended.
C13_Witness ==
    /\ ret[1] \in {"create_run", "run_pipeline"} /\ ret[2] = "raise"
    /\ pipelines = <<>>
    /\ run_history # <<>>
    /\ \E r \in DOMAIN task : Ended(r)

C14_Added(p) ==
    /\ ret'[2] = "id"
    /\ LET id == ret'[3]
           definition == pipelines[p].steps
       IN /\ id \notin Live \cup HistoryIds \cup DOMAIN pipelines
          /\ runs' = Append(runs, id)
          /\ obj'[id].pipeline_id = p
          /\ obj'[id].status = "pending"
          /\ obj'[id].started_at = None /\ obj'[id].finished_at = None
          /\ Len(obj'[id].steps) = Len(definition)
          /\ \A i \in DOMAIN definition :
                /\ obj'[id].steps[i].status = "pending"
                /\ obj'[id].steps[i].retry_count = Get(definition[i], "retry_count", 0)
                /\ obj'[id].steps[i].continue_on_error
                      = Get(definition[i], "continue_on_error", FALSE)
          /\ \A r \in Live : obj'[r] = obj[r]
    /\ UNCHANGED <<pipelines, run_history>>

\* C14: create_run(p) on any pipeline id present in the definition map
\* succeeds and adds exactly one run with a fresh id, status pending, no
\* started_at / finished_at and the definition's steps, every step pending;
\* the definition, the other runs and history are unchanged.
C14_CreateRun ==
    [][\A p \in PipelineIds :
          p \in DOMAIN pipelines /\ create_run(p) => C14_Added(p)]_vars

C15_Invalid(pipeline_config) ==
    IF "name" \notin DOMAIN pipeline_config \/ "steps" \notin DOMAIN pipeline_config
    THEN TRUE
    ELSE \E i \in DOMAIN pipeline_config.steps :
            \/ "name" \notin DOMAIN pipeline_config.steps[i]
            \/ "command" \notin DOMAIN pipeline_config.steps[i]

\* C15: create_pipeline with a configuration that lacks 'name', 'steps', or
\* the 'name' or 'command' of a step raises before any mutation: the
\* definition map and the data file are unchanged.
C15_RejectsInvalid ==
    [][\A pipeline_config \in RawConfigs :
          C15_Invalid(pipeline_config) /\ create_pipeline(pipeline_config)
          => ret'[2] = "raise" /\ UNCHANGED pipelines /\ ~saved']_vars

\* the step the executor of r is running, before and after the transition
CurrentStep(r) == obj[r].steps[task[r].i]
CurrentStepAfter(r) == obj'[r].steps[task[r].i]

\* C16: a step with retry_count R >= 0 whose attempts all exit non-zero is
\* attempted exactly R+1 times, the k-th failed attempt (k <= R) followed by a
\* sleep of 2^(k-1) seconds, 2^R - 1 seconds in all and none after the last
\* attempt, and ends failed; an attempt that exits 0 ends the step with status
\* success, and a step that has ended is never attempted again.
C16_RetryBackoff ==
    [][\A r \in RunIds :
          /\ execute_step_attempt(r, "nonzero")
             => /\ CurrentStepAfter(r).attempts = CurrentStep(r).attempts + 1
                /\ CurrentStepAfter(r).attempts <= CurrentStep(r).retry_count + 1
                /\ IF CurrentStepAfter(r).attempts <= CurrentStep(r).retry_count
                   THEN /\ CurrentStepAfter(r).status = "running"
                        /\ task'[r].pc = "attempt"
                        /\ CurrentStepAfter(r).slept
                             = CurrentStep(r).slept + 2 ^ (CurrentStepAfter(r).attempts - 1)
                   ELSE /\ CurrentStepAfter(r).status = "failed"
                        /\ task'[r].pc = "after_step" /\ ~task'[r].success
                        /\ CurrentStepAfter(r).attempts = CurrentStep(r).retry_count + 1
                        /\ CurrentStepAfter(r).slept = 2 ^ CurrentStep(r).retry_count - 1
                        /\ CurrentStepAfter(r).slept = CurrentStep(r).slept
          /\ execute_step_attempt(r, "ok")
             => /\ CurrentStepAfter(r).status = "success"
                /\ task'[r].pc = "after_step" /\ task'[r].success
                /\ CurrentStepAfter(r).slept = CurrentStep(r).slept
          /\ r \in DOMAIN obj
             => \A i \in DOMAIN obj[r].steps :
                   obj[r].steps[i].status \in StepTerminal
                   => /\ obj'[r].steps[i].attempts = obj[r].steps[i].attempts
                      /\ obj'[r].steps[i].slept = obj[r].steps[i].slept
                      /\ obj'[r].steps[i].status = obj[r].steps[i].status]_vars

\* C16 witness: a run whose first step, with retry_count MaxStepRetry, failed
\* after MaxStepRetry + 1 non-zero exits and 2^MaxStepRetry - 1 seconds of
\* sleep, and whose second step succeeded on its second attempt with retries
\* left.
C16_Witness ==
    \E r \in DOMAIN obj :
      /\ Len(obj[r].steps) = 2
      /\ obj[r].steps[1].status = "failed" /\ obj[r].steps[1].error = "stderr"
      /\ obj[r].steps[1].retry_count = MaxStepRetry
      /\ obj[r].steps[1].attempts = MaxStepRetry + 1
      /\ obj[r].steps[1].slept = 2 ^ MaxStepRetry - 1
      /\ obj[r].steps[2].status = "success"
      /\ obj[r].steps[2].attempts = 2
      /\ obj[r].steps[2].retry_count = MaxStepRetry
      /\ obj[r].steps[2].slept = 1

\* C17: an attempt that times out makes the step failed at once, with the
\* timeout error and end_time set; _execute_step returns False, without a
\* sleep and without another attempt, whatever retry_count is and however
\* many attempts remain.
C17_TimeoutFailsAtOnce ==
    [][\A r \in RunIds :
          execute_step_attempt(r, "timeout")
          => /\ CurrentStepAfter(r).status = "failed"
             /\ CurrentStepAfter(r).error = "timeout"
             /\ CurrentStepAfter(r).end_time # ""
             /\ task'[r].pc = "after_step" /\ ~task'[r].success
             /\ CurrentStepAfter(r).attempts = CurrentStep(r).attempts + 1
             /\ CurrentStepAfter(r).slept = CurrentStep(r).slept]_vars

\* C17 witness: the executor has returned from a step with retry_count
\* MaxStepRetry that timed out on its second attempt, two attempts unused.
C17_Witness ==
    \E r \in DOMAIN obj :
      /\ At(r, "after_step") /\ ~task[r].success
      /\ CurrentStep(r).status = "failed" /\ CurrentStep(r).error = "timeout"
      /\ CurrentStep(r).end_time # ""
      /\ CurrentStep(r).retry_count = MaxStepRetry
      /\ CurrentStep(r).attempts = 2
      /\ CurrentStep(r).slept = 1

\* run_pipeline in the background: one new pending run, one new executor task
\* that has not begun, the run id returned, every other task as it was
C18_Background ==
    \A p \in PipelineIds :
      run_pipeline(p) /\ ret'[2] = "id"
      => LET id == ret'[3]
         IN /\ id \notin DOMAIN task
            /\ DOMAIN task' = DOMAIN task \cup {id}
            /\ task'[id].pc = "dispatched"
            /\ runs' = Append(runs, id)
            /\ obj'[id].status = "pending" /\ obj'[id].started_at = None
            /\ \A r \in DOMAIN task : task'[r] = task[r]

\* the inline call returns the id exactly when the run ended success, and then
\* every history record of the run (none if it was deleted) says success
C18_IdIffSuccess(r) ==
    /\ run_pipeline_foreground(r)[2] = "id"
         <=> task[r].pc = "returned" /\ obj[r].status = "success"
    /\ run_pipeline_foreground(r)[2] = "id"
         => \A i \in DOMAIN run_history :
               run_history[i].id = r => run_history[i].status = "success"

LiveOf(p) == {r \in Live : obj[r].pipeline_id = p}
HistoryOf(p) == {i \in DOMAIN run_history : run_history[i].pipeline_id = p}

C19_Resolution(p) ==
    IF p \notin DOMAIN pipelines THEN ret'[2] = "none"
    ELSE /\ ret'[2] = "dict"
         /\ IF LiveOf(p) # {}
            THEN \E r \in LiveOf(p) :
                    /\ \A q \in LiveOf(p) : obj[q].created_at <= obj[r].created_at
                    /\ ret'[3].status = obj[r].status
                    /\ ret'[3].steps = obj[r].steps
            ELSE IF HistoryOf(p) # {}
                 THEN \E i \in HistoryOf(p) :
                         /\ \A j \in HistoryOf(p) :
                               run_history[j].created_at <= run_history[i].created_at
                         /\ ret'[3].status = run_history[i].status
                         /\ ret'[3].steps = run_history[i].steps
                 ELSE ret'[3] = [status |-> "never_run", steps |-> <<>>]

\* C19: get_pipeline_status(p) on a known pipeline reports the status and
\* steps of a live run of p with the greatest created_at if p has a live run;
\* otherwise those of a history record of p with the greatest created_at;
\* otherwise status never_run and no steps.
C19_LatestRun ==
    [][\A p \in LoadedPipelineIds : get_pipeline_status(p) => C19_Resolution(p)]_vars

\* C19 witness: the only definition has two live runs, the one inserted first
\* being the later created and running, the other pending, and a history
\* record created as late as the first; get_pipeline_status reported running.
C19_Witness ==
    /\ ret[1] = "get_pipeline_status" /\ ret[2] = "dict"
    /\ DOMAIN pipelines = {1}
    /\ Len(runs) = 2
    /\ \A r \in Live : obj[r].pipeline_id = 1
    /\ obj[runs[1]].created_at = MaxCreated /\ obj[runs[1]].status = "running"
    /\ obj[runs[2]].created_at < MaxCreated /\ obj[runs[2]].status = "pending"
    /\ \E i \in HistoryOf(1) : run_history[i].created_at = MaxCreated
    /\ ret[3].status = "running"

\* C20: in every state the status list_pipelines reports for a definition is
\* the status get_pipeline_status reports for it.
C20_SameStatus ==
    [][list_pipelines
       => \A k \in DOMAIN ret'[3] :
             ret'[3][k].status = get_pipeline_status_result(ret'[3][k].id)[2].status]_vars

\* C21: list_pipelines returns one entry per definition, ordered by the
\* definitions' created_at descending; active_runs is the number of live runs
\* of the pipeline and total_runs the number of its history records plus
\* active_runs.
C21_ListPipelines ==
    [][list_pipelines
       => LET res == ret'[3]
          IN /\ Len(res) = Cardinality(DOMAIN pipelines)
             /\ {res[k].id : k \in DOMAIN res} = DOMAIN pipelines
             /\ \A k, l \in DOMAIN res : k < l => res[k].created_at >= res[l].created_at
             /\ \A k \in DOMAIN res :
                   /\ res[k].created_at = pipelines[res[k].id].created_at
                   /\ res[k].active_runs = Cardinality(LiveOf(res[k].id))
                   /\ res[k].total_runs
                        = Cardinality(HistoryOf(res[k].id)) + res[k].active_runs]_vars

\* C21 witness: list_pipelines returned two entries, the later defined
\* pipeline first although it is the second in the definition map; that
\* pipeline has one live running run and one history record, the other has
\* never run.
C21_Witness ==
    /\ ret[1] = "list_pipelines"
    /\ Len(ret[3]) = 2
    /\ ret[3][1].id = 2 /\ ret[3][2].id = 1
    /\ pipelines[2].created_at > pipelines[1].created_at
    /\ ret[3][1].active_runs = 1 /\ ret[3][1].total_runs = 2
    /\ \A r \in LiveOf(2) : obj[r].status = "running"
    /\ ret[3][2].active_runs = 0 /\ ret[3][2].total_runs = 0
    /\ ret[3][2].status = "never_run"

\* C22: list_runs(p) returns exactly one entry for each run that is live or
\* in history (of pipeline p when p is given), sorted by created_at
\* descending: none is missing and none appears twice, also while a run is
\* being moved to history.
C22_ListRuns ==
    [][\A p \in {None} \cup PipelineIds :
          list_runs(p)
          => LET res == ret'[3]
                 known == {r \in Live \cup HistoryIds :
                             \/ p = None
                             \/ r \in Live /\ obj[r].pipeline_id = p
                             \/ \E i \in DOMAIN run_history :
                                   run_history[i].id = r /\ run_history[i].pipeline_id = p}
             IN /\ {res[k].id : k \in DOMAIN res} = known
                /\ \A k, l \in DOMAIN res : res[k].id = res[l].id => k = l
                /\ \A k, l \in DOMAIN res :
                      k < l => res[k].created_at >= res[l].created_at]_vars

\* C23: get_run_status(id) returns the detail of the run, steps included, for
\* every run that is live or in history, also one that is moved to history
\* while the call runs; it returns None only for an id in neither, and never
\* raises.
C23_GetRunStatus ==
    [][/\ \A r \in QueryRunIds :
            get_run_status_check(r) /\ call' = Idle
            => IF r \in Live \cup HistoryIds
               THEN ret'[2] = "dict" /\ ret'[3].id = r /\ "steps" \in DOMAIN ret'[3]
               ELSE ret'[2] = "none"
       /\ get_run_status_detail
            => ret'[2] = "dict" /\ ret'[3].id = call.arg /\ "steps" \in DOMAIN ret'[3]]_vars

\* no registry call and no executor task is in progress
Quiescent ==
    /\ call = Idle
    /\ \A r \in DOMAIN task : task[r].pc \in {"none", "returned", "raised"}

\* C24: whenever no operation and no run executor is in progress and no save
\* has failed (the data file has been writable all along), the file's
\* pipelines, runs and run_history equal the in-memory definitions, live runs
\* and history, also when operations and run completions of different threads
\* interleaved.  An engine that has not yet saved has no file and is empty.
C24_StoreEqualsMemory ==
    (Quiescent /\ disk = "ok") =>
        \/ file = Stored(Snapshot)
        \/ file = Absent /\ Snapshot = NoData

\* C25: saving an engine state that holds definitions, live runs and history
\* records and loading the file into a fresh engine yields the same
\* definitions, the same live runs in the same order with the same fields
\* (id, pipeline_id, status, timestamps, steps in order with their statuses,
\* outputs and errors) and the same history in the same order.
C25_RoundTrip ==
    [][(restart /\ file.state = "ok" /\ file.data = SaveData) =>
          /\ pipelines' = pipelines
          /\ runs' = runs
          /\ \A r \in Live : obj'[r] = obj[r]
          /\ run_history' = run_history]_vars

\* a fresh engine loaded from the file of an engine with two definitions, two
\* live runs not in id order, one of them failed at its second step, and a
\* history record
C25_Witness ==
    /\ ret = <<"__init__", "none", 0>>
    /\ file.state = "ok" /\ file.data = SaveData
    /\ Cardinality(DOMAIN pipelines) = 2
    /\ Len(runs) = 2 /\ runs[1] > runs[2]
    /\ \E r \in Live :
          /\ obj[r].status = "FAILED" /\ obj[r].finished_at = 2
          /\ Len(obj[r].steps) = 2
          /\ obj[r].steps[1].status = "SUCCESS" /\ obj[r].steps[1].output = "out"
          /\ obj[r].steps[2].status = "FAILED" /\ obj[r].steps[2].error = "err"
    /\ Len(run_history) = 1 /\ run_history[1].status = "success"

\* all three containers of the engine are empty after the step
StartsEmpty == pipelines' = <<>> /\ runs' = <<>> /\ run_history' = <<>>

\* the data file has been moved to data_file + '.backup' by the step
RenamedAside ==
    /\ file'.state = "absent"
    /\ file'.backup = [state |-> file.state, data |-> file.data]

\* C26: startup never fails because of the store: with no data file the
\* engine starts with empty definitions, live runs and history; with a file
\* that cannot be deserialized, wholly or for any single run record, the file
\* is renamed aside as a .backup and the engine starts with all three
\* containers empty, never partially loaded.
C26_StartupRenames ==
    [][restart =>
          /\ file.state = "absent" => StartsEmpty
          /\ load_data_raises(file) => StartsEmpty /\ RenamedAside]_vars

\* C26 as the code has it: the rename is attempted, and when os.rename raises
\* the exception is swallowed and the file stays where it is; the engine
\* starts empty in either case.
C26_Startup ==
    [][restart =>
          /\ file.state = "absent" => StartsEmpty /\ file' = file
          /\ load_data_raises(file) =>
                /\ StartsEmpty
                /\ IF disk = "failing" THEN file' = file ELSE RenamedAside]_vars

\* a fresh engine, empty, whose data file held a definition, a good run record
\* and then a run record that cannot be deserialized; the file is now the backup
C26_Witness ==
    /\ ret = <<"__init__", "none", 0>>
    /\ pipelines = <<>> /\ runs = <<>> /\ run_history = <<>>
    /\ file.state = "absent"
    /\ file.backup.state = "ok"
    /\ DOMAIN file.backup.data.pipelines # {}
    /\ Len(file.backup.data.runs) = 2
    /\ ~PipelineRun_from_dict_full_raises(file.backup.data.runs[1][2])
    /\ PipelineRun_from_dict_full_raises(file.backup.data.runs[2][2])

\* the registry call or run completion of the step returns what it returns
\* when the save works, with its change of the containers applied
C27_NormalResult ==
    /\ ret'[2] # "raise"
    /\ \A r \in RunIds :
          /\ cancel_run(r) => ret' = <<"cancel_run", "bool", obj'[r].status = "cancelled">>
          /\ delete_run(r) /\ ret'[3] =>
                IF r \in Live THEN r \notin Range(runs') ELSE Count(r)' < Count(r)
          /\ execute_run_write(r) =>
                /\ task'[r].pc = "returned"
                /\ r \in HistoryIds => r \in HistoryIds'
                /\ \A i \in DOMAIN run_history' :
                      run_history'[i].id = r => run_history'[i].status \in Terminal
    /\ \A p \in PipelineIds :
          delete_pipeline(p) /\ ret'[3] => p \notin DOMAIN pipelines'

\* C27: a failing save is absorbed: the registry operation or run completion
\* that triggered it still returns its normal result with its in-memory
\* change applied (a finishing run still ends in history with its terminal
\* status), no executor in progress is aborted, and the next successful save
\* persists the then-current in-memory state.
C27_FailingSaveAbsorbed ==
    [][/\ (saved' /\ disk = "failing") =>
             /\ C27_NormalResult
             /\ \A r \in DOMAIN task : task[r].pc # "raised" => task'[r].pc # "raised"
       /\ (saved' /\ disk = "repaired") =>
             file'.state = "ok" /\ file'.data = Snapshot']_vars

\* C28: every run that reaches a terminal status, a run cancelled while
\* pending and never dispatched included, is eventually relocated from the
\* live map into history; no run with a terminal status stays in the live map
\* for ever (a run the caller deletes leaves the live map too).
C28_EventuallyRelocated ==
    \A r \in RunIds :
        (r \in Live /\ obj[r].status \in Terminal) ~> (r \notin Live)

\* the history records of the other runs, in order
OtherRecords(h, a) == SelectSeq(h, LAMBDA rec : rec.id # a)

\* what a step of the executor of run a leaves alone: the definitions, every
\* other run object and its executor, the other keys of the live map and the
\* other records of the history
C29_Frame(a) ==
    /\ pipelines' = pipelines
    /\ \A r \in DOMAIN obj \ {a} : obj'[r] = obj[r] /\ task'[r] = task[r]
    /\ Remove(runs', a) = Remove(runs, a)
    /\ OtherRecords(run_history', a) = OtherRecords(run_history, a)

C30_Owned ==
    /\ [](\A r \in Live :
             /\ obj[r].variables # ConfigVariables
             /\ \A p \in DOMAIN pipelines : pipelines[p].variables # obj[r].variables
             /\ \A q \in Live \ {r} : obj[q].variables # obj[r].variables)
    /\ [][config_variables_set =>
             \A r \in Live : heap'[obj[r].variables] = heap[obj[r].variables]]_vars

\* the value of a name in a variables dict, or "none" when it is no key
ValueOf(variables, name) ==
    IF \E k \in DOMAIN variables : variables[k][1] = name
    THEN variables[CHOOSE k \in DOMAIN variables : variables[k][1] = name][2]
    ELSE "none"

\* the name that starts s: its longest prefix of name characters
RECURSIVE NameAt(_)
NameAt(s) ==
    IF s # <<>> /\ s[1] \in NameCharacters THEN <<s[1]>> \o NameAt(Tail(s)) ELSE <<>>

\* the command with every placeholder ${NAME} or $NAME of a defined NAME
\* replaced by its value and everything else kept
RECURSIVE Substituted(_, _)
Substituted(s, variables) ==
    IF s = <<>> THEN <<>>
    ELSE IF s[1] # "$" THEN <<s[1]>> \o Substituted(Tail(s), variables)
    ELSE LET braced == Len(s) >= 2 /\ s[2] = "{"
             name == IF braced THEN NameAt(SubSeq(s, 3, Len(s))) ELSE NameAt(Tail(s))
             closed == braced /\ Len(s) >= Len(name) + 3 /\ s[Len(name) + 3] = "}"
             length == IF braced THEN Len(name) + 3 ELSE Len(name) + 1
         IN IF name = <<>> \/ (braced /\ ~closed)
            THEN <<"$">> \o Substituted(Tail(s), variables)
            ELSE (IF ValueOf(variables, name) = "none" THEN SubSeq(s, 1, length)
                  ELSE ValueOf(variables, name))
                 \o Substituted(SubSeq(s, length + 1, Len(s)), variables)

\* C31: for every variable VAR with value x, both ${VAR} and $VAR in a step's
\* command are replaced by x, and every placeholder whose name is not a key of
\* the run's variables, a name that merely starts with a defined name
\* included, is left in the command unchanged.
C31_Substitution ==
    ret[2] = "command" => ret[3][3] = Substituted(ret[3][1], ret[3][2])

\* C32: the data file is modified only under the exclusive lock: a load that
\* holds the shared lock never finds the file truncated or partly written by
\* a concurrent save, and no store that loads is renamed aside as corrupt.
C32_LockedWrites ==
    /\ HoldsShared => file.state # "corrupt"
    /\ file.backup = NoBackup

\* C33: access to the shared containers is mutually exclusive between tasks:
\* cancel_run, cancel_pipeline, delete_run, delete_pipeline, get_run_status,
\* list_runs and list_pipelines, run while a run completes and moves to
\* history, return their normal result and never fault because the live map
\* changed between their lookup and their use.
C33_NoFault ==
    ret[1] \in {"cancel_run", "cancel_pipeline", "delete_run", "delete_pipeline",
                "get_run_status", "list_runs", "list_pipelines"}
    => ret[2] # "raise"

\* a run that was created and is in neither container: delete_run has removed
\* it and returned True (nothing else takes a run out of both containers)
Deleted(r) == r \in DOMAIN obj /\ r \notin Live \cup HistoryIds

\* C34: after delete_run(id) has returned True, run id never again appears in
\* the live map or in history, also when its executor task had been dispatched
\* before the delete.
C34_DeletedStaysDeleted ==
    [][\A r \in RunIds : Deleted(r) => r \notin Live' \cup HistoryIds']_vars

\* a run that is cancelled while its executor has not begun: the executor is
\* not dispatched yet or is before line 351, and no step has been touched
CancelledBeforeStart(r) ==
    /\ r \in DOMAIN obj
    /\ obj[r].status = "cancelled"
    /\ obj[r].started_at = None
    /\ task[r].pc \in {"none", "dispatched", "get", "begin"}

\* C35: a run whose status was set to cancelled before its executor began
\* executes none of its steps: whatever happens next, its steps are all
\* pending and its status is still cancelled.
C35_CancelledNeverStarts ==
    [][\A r \in RunIds :
          CancelledBeforeStart(r)
          => /\ obj'[r].status = "cancelled"
             /\ \A k \in DOMAIN obj'[r].steps : obj'[r].steps[k].status = "pending"]_vars

\* the history holds a record of run r with a terminal status and finished_at
Recorded(r) ==
    \E i \in DOMAIN run_history :
        /\ run_history[i].id = r
        /\ run_history[i].status \in Terminal
        /\ run_history[i].finished_at # None

\* C36 as stated: under fair scheduling every run dispatched by run_pipeline
\* eventually has a terminal status and finished_at and is in history, whatever
\* the registry operations do meanwhile.
C36_EveryRunRecorded ==
    \A r \in RunIds : At(r, "dispatched") ~> Recorded(r)

\* C36: under fair scheduling every run dispatched by run_pipeline eventually
\* has a terminal status and finished_at and is in history, unless delete_run
\* removes it first.
C36_RecordedUnlessDeleted ==
    \A r \in RunIds : At(r, "dispatched") ~> (Recorded(r) \/ Deleted(r))

\* a dispatched run whose executor has returned and whose record is in history
C36_Witness ==
    \E r \in RunIds : At(r, "returned") /\ Recorded(r) /\ r \notin Live

\* C37: whenever _execute_step returns, the step has a terminal status and
\* end_time set, success exactly when it returned True and failed otherwise,
\* for every retry_count, a negative one included; it never returns with the
\* step running or pending.
C37_StepTerminalOnReturn ==
    \A r \in DOMAIN task :
        At(r, "after_step")
        => /\ CurrentStep(r).status \in StepTerminal
           /\ CurrentStep(r).end_time # ""
           /\ task[r].success <=> CurrentStep(r).status = "success"

\* a live run that is pending or running and has no executor
Orphan(r) ==
    /\ r \in Live
    /\ obj[r].status \in {"pending", "running"}
    /\ task[r].pc = "none"

\* C38: after the engine process stopped while runs were pending or in flight
\* and a new engine loaded the store, no run stays for ever in the live map as
\* pending or running without an executor: it is resumed or brought to a
\* terminal status.
C38_NoOrphanForever ==
    \A r \in RunIds :
        Orphan(r) ~> (r \notin Live \/ obj[r].status \in Terminal \/ task[r].pc # "none")

\* the ids of the definitions, live runs and history records in a data file
FileDefinitions(f) == DOMAIN f.data.pipelines
FileRuns(f) == {f.data.runs[k].id : k \in DOMAIN f.data.runs}
FileHistory(f) == {f.data.run_history[i].id : i \in DOMAIN f.data.run_history}

\* C39: when two engine processes share the data file and each loads it,
\* applies a mutating operation and saves, the file holds the effects of both:
\* a save changes the definitions, runs and history records of the file only
\* by what its own operation changed, and discards nothing the other process
\* persisted.
C39_SavesKeepOthers ==
    [][saved' =>
         /\ \A p \in LoadedPipelineIds :
               (p \in FileDefinitions(file)) # (p \in FileDefinitions(file'))
               => (p \in DOMAIN pipelines) # (p \in DOMAIN pipelines')
         /\ \A r \in ShareRunIds :
               /\ (r \in FileRuns(file)) # (r \in FileRuns(file'))
                  => (r \in Live) # (r \in Live')
               /\ (r \in FileHistory(file)) # (r \in FileHistory(file'))
                  => (r \in HistoryIds) # (r \in HistoryIds')]_vars

\* C40: referential integrity of live runs: every run in the live map refers
\* to a pipeline id that is in the definition map; delete_pipeline never
\* succeeds while a live run of that pipeline remains.
C40_LiveRunsHaveDefinition ==
    \A r \in Live : obj[r].pipeline_id \in DOMAIN pipelines

=============================================================================
